---------------------------- MODULE Spec2Model ----------------------------
(***************************************************************************)
(* Model of the resolution / validation / filtering core of litepub_norm.  *)
(*                                                                         *)
(* Part 1 (SpecWalk): the native-table payload validator                   *)
(*   validator/table_pandoc_v1.py on top of the generic walker             *)
(*   resolver/validators/pandoc_walk.py.                                   *)
(*                                                                         *)
(* JSON values are records [j, t, p, v, items, o]:                         *)
(*   j = "null" | "prim" | "list" | "dict"                                 *)
(*   t     : value of the "t" key of a dict ("" when absent)               *)
(*   p, v  : kind and value of a primitive                                 *)
(*   items : elements of a list; for a dict <<c>> when key "c" is present  *)
(*   o     : values stored under keys other than "t" and "c" of a dict     *)
(***************************************************************************)
EXTENDS Integers, Sequences, FiniteSets, TLC

\* native-table validation (SpecWalk)
VARIABLES payload, allow_raw_pandoc, vpc, vresult
\* resolution (SpecPlan, SpecResolve)
VARIABLES ast, input0, registry, disk, config, plan, rpc, ri, work, ret, err

walkVars == <<payload, allow_raw_pandoc, vpc, vresult>>
resolveVars == <<ast, input0, registry, disk, config, plan, rpc, ri, work, ret, err>>
\* the filter stages: the caller's tree and what it was at the call, the tree
\* the last stage returned, the build context, the second target of a
\* re-filtering run, which entry point is called, and the position in it;
\* the report the caller holds (the merged report in apply_filters), and the
\* tree passed to the last stage with the report that stage returned
VARIABLES ftree, ftree0, cur, fctx, target2, fmode, fpc
VARIABLES freport, stage_in, stage_report
\* the filter configuration
VARIABLES fconfig
filterVars == <<ftree, ftree0, cur, fctx, target2, fmode, fpc,
                freport, stage_in, stage_report, fconfig>>
\* the document validator: the resolved tree, the configuration, the mode, the
\* position in the call, the result returned and the error raised
VARIABLES doc, dconfig, fail_fast, dpc, dresult, derr
docVars == <<doc, dconfig, fail_fast, dpc, dresult, derr>>
\* the payload validators of metrics and simple tables: the parsed payload,
\* who calls the validator ("direct": a caller of the validator function,
\* "pipeline": _resolve_item), the strict_keys argument in force, the
\* resolution configuration of a pipeline call, the position and the outcome
VARIABLES spayload, scaller, strict_keys, sconfig, spc, sresult
payloadVars == <<spayload, scaller, strict_keys, sconfig, spc, sresult>>
\* BuildContext objects: the contexts constructed so far, each with the strict
\* value its constructor was called with, and the exception the last operation
\* raised
VARIABLES contexts, bcerr
contextVars == <<contexts, bcerr>>
\* one call of _resolve_item: the registry entry of the item, the files under
\* the artifact root (uri -> bytes), the resolution configuration, the position
\* and what the call returned or raised
VARIABLES fig_entry, fig_files, fig_config, fig_pc, fig_ret
figureVars == <<fig_entry, fig_files, fig_config, fig_pc, fig_ret>>
\* the normalizer followed by the planner: the tree the adapter delivers, the
\* normalization registry (its data and its strict flag), the position, what
\* apply() returned or raised and what build_plan made of the returned tree
VARIABLES norm_ast, norm_registry, norm_pc, norm_out, norm_plan
normVars == <<norm_ast, norm_registry, norm_pc, norm_out, norm_plan>>
\* the variables of the unit-level specifications
unitVars == <<payloadVars, contextVars, figureVars, normVars>>
vars == <<walkVars, resolveVars, filterVars, docVars, unitVars>>

\* ------------------------------------------------------------------ bounds
\* nesting levels of constructs wrapped around a leaf in generated payloads
MaxNest == 2

\* ------------------------------------------------------- JSON constructors
JNull == [j |-> "null", t |-> "", p |-> "", v |-> 0, items |-> <<>>, o |-> <<>>]
JInt(n) == [j |-> "prim", t |-> "", p |-> "int", v |-> n, items |-> <<>>, o |-> <<>>]
JStr == [j |-> "prim", t |-> "", p |-> "str", v |-> 0, items |-> <<>>, o |-> <<>>]
JList(s) == [j |-> "list", t |-> "", p |-> "", v |-> 0, items |-> s, o |-> <<>>]
JNode(type, c) == [j |-> "dict", t |-> type, p |-> "", v |-> 0, items |-> <<c>>, o |-> <<>>]
JTag(type) == [j |-> "dict", t |-> type, p |-> "", v |-> 0, items |-> <<>>, o |-> <<>>]

IsDict(x) == x.j = "dict"
IsList(x) == x.j = "list"
\* node.get("c"): None when the key is absent
GetC(node) == IF Len(node.items) = 0 THEN JNull ELSE node.items[1]
\* len(x) of a list value
JLen(x) == Len(x.items)

EmptyAttr == JList(<<JStr, JList(<<>>), JList(<<>>)>>)

\* ------------------------------------------------------ pandoc_walk tables

\* ------------------------------------------------ table_pandoc_v1 policies
RAW_TYPES == {"RawInline", "RawBlock"}

OK == "OK"
MaxWalkDepth == 100

\* <<child, context>> pairs for every element of a list value
Each(list, ctx) == [i \in 1..Len(list.items) |-> <<list.items[i], ctx>>]

\* python content[k] (0-based) of a list value
At(x, k) == x.items[k + 1]

\* The values walk_pandoc recurses into for a dict node whose content is c,
\* in call order, each with the context handed to the recursive call.
WalkChildren(node_type, c) ==
    LET RECURSIVE Flatten(_)
        Flatten(ss) == IF Len(ss) = 0 THEN <<>> ELSE Head(ss) \o Flatten(Tail(ss))
        WalkTableChildren ==
            IF JLen(c) < 6 THEN <<>>
            ELSE (IF IsList(At(c, 1)) /\ JLen(At(c, 1)) >= 2
                      THEN << <<At(At(c, 1), 1), "BLOCK">> >> ELSE <<>>)
                 \o (IF IsDict(At(c, 3)) THEN << <<At(c, 3), "BLOCK">> >> ELSE <<>>)
                 \o (IF IsList(At(c, 4)) THEN Each(At(c, 4), "BLOCK") ELSE <<>>)
                 \o (IF IsDict(At(c, 5)) THEN << <<At(c, 5), "BLOCK">> >> ELSE <<>>)
        WalkHeadFootChildren ==
            IF JLen(c) < 2 THEN <<>>
            ELSE IF IsList(At(c, 1)) THEN Each(At(c, 1), "BLOCK") ELSE <<>>
        WalkBodyChildren ==
            IF JLen(c) < 4 THEN <<>>
            ELSE (IF IsList(At(c, 2)) THEN Each(At(c, 2), "BLOCK") ELSE <<>>)
                 \o (IF IsList(At(c, 3)) THEN Each(At(c, 3), "BLOCK") ELSE <<>>)
        WalkRowChildren ==
            IF JLen(c) < 2 THEN <<>>
            ELSE IF IsList(At(c, 1)) THEN Each(At(c, 1), "BLOCK") ELSE <<>>
        WalkCellChildren ==
            IF JLen(c) < 5 THEN <<>>
            ELSE IF IsList(At(c, 4)) THEN << <<At(c, 4), "BLOCK">> >> ELSE <<>>
    IN
    CASE node_type \in {"Plain", "Para"} -> << <<c, "INLINE">> >>
      [] node_type = "LineBlock" -> Each(c, "INLINE")
      [] node_type = "BlockQuote" -> << <<c, "BLOCK">> >>
      [] node_type = "BulletList" -> Each(c, "BLOCK")
      [] node_type = "OrderedList" ->
            IF JLen(c) >= 2 THEN Each(At(c, 1), "BLOCK") ELSE <<>>
      [] node_type = "DefinitionList" ->
            Flatten([i \in 1..JLen(c) |->
                       << <<At(c.items[i], 0), "INLINE">> >>
                       \o Each(At(c.items[i], 1), "BLOCK")])
      [] node_type = "Header" ->
            IF JLen(c) >= 3 THEN << <<At(c, 2), "INLINE">> >> ELSE <<>>
      [] node_type = "Table" -> WalkTableChildren
      [] node_type = "Figure" ->
            IF JLen(c) >= 3
            THEN (IF JLen(At(c, 1)) >= 2
                      THEN << <<At(At(c, 1), 1), "BLOCK">> >> ELSE <<>>)
                 \o << <<At(c, 2), "BLOCK">> >>
            ELSE <<>>
      [] node_type = "Div" ->
            IF JLen(c) >= 2 THEN << <<At(c, 1), "BLOCK">> >> ELSE <<>>
      [] node_type \in {"Emph", "Underline", "Strong", "Strikeout",
                        "Superscript", "Subscript", "SmallCaps"} ->
            << <<c, "INLINE">> >>
      [] node_type \in {"Quoted", "Cite", "Link", "Image", "Span"} ->
            IF JLen(c) >= 2 THEN << <<At(c, 1), "INLINE">> >> ELSE <<>>
      [] node_type = "Note" -> << <<c, "BLOCK">> >>
      [] node_type \in {"TableHead", "TableFoot"} -> WalkHeadFootChildren
      [] node_type = "TableBody" -> WalkBodyChildren
      [] node_type = "Row" -> WalkRowChildren
      [] node_type = "Cell" -> WalkCellChildren
      [] OTHER -> <<>>

\* safety_check callback of validate_table_pandoc_v1: OK or the error code
\* of the ValidationError it raises.  opts = [allow_raw, allow_nested_tables,
\* allow_figures_in_cells, allow_images_in_cells].
safety_check(node_type, ctx, opts) ==
    LET ALL_INLINE_TYPES == {"Str", "Emph", "Underline", "Strong", "Strikeout", "Superscript",
                             "Subscript", "SmallCaps", "Quoted", "Cite", "Code", "Space",
                             "SoftBreak", "LineBreak", "Math", "RawInline", "Link", "Image",
                             "Note", "Span"}
    IN
    LET \* ALL_BLOCK_TYPES / ALL_INLINE_TYPES: the keys of BLOCK_TYPES / INLINE_TYPES
        ALL_BLOCK_TYPES == {"Plain", "Para", "LineBlock", "CodeBlock", "RawBlock", "BlockQuote",
                            "OrderedList", "BulletList", "DefinitionList", "Header",
                            "HorizontalRule", "Table", "Figure", "Div"}
    IN
    LET table_structure_types == {"Table", "TableHead", "TableBody", "TableFoot", "Row", "Cell"}
    IN
    LET SAFE_BLOCK_TYPES == {"Plain", "Para", "CodeBlock", "BlockQuote", "BulletList",
                             "OrderedList", "DefinitionList", "Header", "HorizontalRule",
                             "LineBlock"}
    IN
    LET SAFE_INLINE_TYPES == {"Str", "Space", "SoftBreak", "LineBreak", "Emph", "Underline",
                              "Strong", "Strikeout", "Superscript", "Subscript", "SmallCaps",
                              "Code", "Math", "Link", "Image", "Span", "Quoted", "Cite", "Note"}
    IN
    LET NEVER_ALLOWED_TYPES == {"Div"}
    IN
    LET allowed_block_types ==
            SAFE_BLOCK_TYPES
              \cup (IF opts.allow_nested_tables THEN {"Table"} ELSE {})
              \cup (IF opts.allow_figures_in_cells THEN {"Figure"} ELSE {})
              \cup (IF opts.allow_raw THEN {"RawBlock"} ELSE {})
        allowed_inline_types ==
            ((SAFE_INLINE_TYPES \ (IF opts.allow_images_in_cells THEN {} ELSE {"Image"}))
              \cup (IF opts.allow_raw THEN {"RawInline"} ELSE {}))
    IN
    IF node_type = "" THEN OK
    ELSE IF node_type \in table_structure_types THEN OK
    ELSE IF node_type \in NEVER_ALLOWED_TYPES THEN "VAL_PANDOC_DIV_FORBIDDEN"
    ELSE IF node_type \in RAW_TYPES /\ ~opts.allow_raw
         THEN (IF node_type = "RawInline" THEN "VAL_PANDOC_RAWINLINE_FORBIDDEN"
                                          ELSE "VAL_PANDOC_RAWBLOCK_FORBIDDEN")
    ELSE IF ctx = "BLOCK" /\ node_type \in ALL_BLOCK_TYPES
                          /\ node_type \notin allowed_block_types
         THEN "VAL_PANDOC_BLOCK_NOT_ALLOWED"
    ELSE IF ctx = "INLINE" /\ node_type \in ALL_INLINE_TYPES
                           /\ node_type \notin allowed_inline_types
         THEN "VAL_PANDOC_INLINE_NOT_ALLOWED"
    ELSE OK

\* walk_pandoc with safety_check as the callback: OK, or the code of the
\* first ValidationError raised in traversal order.
RECURSIVE walk_pandoc(_, _, _, _), WalkEach(_, _, _, _)
walk_pandoc(node, ctx, depth, opts) ==
    IF depth > MaxWalkDepth THEN "VAL_PANDOC_TOO_DEEP"
    ELSE IF node.j = "null" THEN OK
    ELSE IF node.j = "list" THEN WalkEach(Each(node, ctx), 1, depth + 1, opts)
    ELSE IF node.j = "prim" THEN OK
    ELSE LET cb == safety_check(node.t, ctx, opts)
             c == GetC(node)
         IN  IF cb # OK THEN cb
             ELSE IF c.j = "null" THEN OK
             ELSE WalkEach(WalkChildren(node.t, c), 1, depth + 1, opts)

WalkEach(pairs, i, depth, opts) ==
    IF i > Len(pairs) THEN OK
    ELSE LET r == walk_pandoc(pairs[i][1], pairs[i][2], depth, opts)
         IN  IF r # OK THEN r ELSE WalkEach(pairs, i + 1, depth, opts)

\* ---------------------------------------------- table structure / geometry
\* ResolutionLimits defaults
DefaultLimits == [max_table_cells |-> 200000,
                  max_table_rows |-> 10000,
                  max_table_cols |-> 100]

\* the loop over the cells of one row, from cell i with running offset col_position
RECURSIVE RowCells(_, _, _, _, _)
RowCells(cells, i, col_position, num_cols, check_geometry) ==
    LET \* _validate_cell: OK or error code (the spans are read by the caller)
        validate_cell(cell) ==
            IF ~IsDict(cell) THEN "VAL_PANDOC_CELL_TYPE"
            ELSE IF cell.t # "Cell" THEN "VAL_PANDOC_CELL_WRONG_TYPE"
            ELSE LET content == IF Len(cell.items) = 0 THEN JList(<<>>) ELSE cell.items[1]
                     \* isinstance(x, int): Python booleans are ints
                     IsPyInt(x) == x.j = "prim" /\ x.p \in {"int", "bool"}
                 IN  IF ~IsList(content) \/ JLen(content) < 5 THEN "VAL_PANDOC_CELL_STRUCTURE"
                     ELSE IF ~IsPyInt(At(content, 2)) \/ At(content, 2).v < 1
                          THEN "VAL_PANDOC_ROWSPAN_INVALID"
                     ELSE IF ~IsPyInt(At(content, 3)) \/ At(content, 3).v < 1
                          THEN "VAL_PANDOC_COLSPAN_INVALID"
                     ELSE OK
    IN
    IF i > Len(cells) THEN OK
    ELSE LET r == validate_cell(cells[i])
             colspan == At(cells[i].items[1], 3).v
         IN  IF r # OK THEN r
             ELSE IF check_geometry /\ col_position + colspan > num_cols
                  THEN "VAL_PANDOC_COLSPAN_OVERFLOW"
             ELSE RowCells(cells, i + 1, col_position + colspan,
                           num_cols, check_geometry)

\* validating a list of rows in order: [err, rows, cells]
RECURSIVE ValidateRows(_, _, _, _)
ValidateRows(rows, i, num_cols, check_geometry) ==
    LET \* _validate_row: [err, n] with n = len(cells)
        validate_row(row, num_cols_, check_geometry_) ==
            IF ~IsDict(row) THEN [err |-> "VAL_PANDOC_ROW_TYPE", n |-> 0]
            ELSE IF row.t # "Row" THEN [err |-> "VAL_PANDOC_ROW_WRONG_TYPE", n |-> 0]
            ELSE LET content == IF Len(row.items) = 0 THEN JList(<<>>) ELSE row.items[1]
                 IN  IF ~IsList(content) \/ JLen(content) < 2
                         THEN [err |-> "VAL_PANDOC_ROW_STRUCTURE", n |-> 0]
                     ELSE IF ~IsList(At(content, 1))
                         THEN [err |-> "VAL_PANDOC_ROW_CELLS_TYPE", n |-> 0]
                     ELSE [err |-> RowCells(At(content, 1).items, 1, 0, num_cols_, check_geometry_),
                           n |-> JLen(At(content, 1))]
    IN
    IF i > Len(rows) THEN [err |-> OK, rows |-> 0, cells |-> 0]
    ELSE LET r == validate_row(rows[i], num_cols, check_geometry)
         IN  IF r.err # OK THEN [err |-> r.err, rows |-> 0, cells |-> 0]
             ELSE LET rest == ValidateRows(rows, i + 1, num_cols, check_geometry)
                  IN  [err |-> rest.err, rows |-> rest.rows + 1, cells |-> rest.cells + r.n]

\* _validate_table_section (TableHead / TableFoot): OK or error code
validate_table_section(section, section_name, num_cols, check_geometry) ==
    LET up == IF section_name = "TableHead" THEN "TABLEHEAD" ELSE "TABLEFOOT"
    IN
    IF ~IsDict(section) THEN "VAL_PANDOC_" \o up \o "_TYPE"
    ELSE IF section.t # section_name THEN "VAL_PANDOC_" \o up \o "_WRONG_TYPE"
    ELSE LET content == IF Len(section.items) = 0 THEN JList(<<>>) ELSE section.items[1]
         IN  IF ~IsList(content) \/ JLen(content) < 2
                 THEN "VAL_PANDOC_" \o up \o "_STRUCTURE"
             ELSE IF ~IsList(At(content, 1)) THEN "VAL_PANDOC_" \o up \o "_ROWS_TYPE"
             ELSE ValidateRows(At(content, 1).items, 1, num_cols, check_geometry).err

RECURSIVE ValidateBodies(_, _, _, _)
ValidateBodies(bodies, i, num_cols, check_geometry) ==
    LET \* _validate_table_body: [err, rows, cells]
        validate_table_body(body, num_cols_, check_geometry_) ==
            LET fail(code) == [err |-> code, rows |-> 0, cells |-> 0] IN
            IF ~IsDict(body) THEN fail("VAL_PANDOC_TABLEBODY_TYPE")
            ELSE IF body.t # "TableBody" THEN fail("VAL_PANDOC_TABLEBODY_WRONG_TYPE")
            ELSE LET content == IF Len(body.items) = 0 THEN JList(<<>>) ELSE body.items[1]
                 IN  IF ~IsList(content) \/ JLen(content) < 4
                         THEN fail("VAL_PANDOC_TABLEBODY_STRUCTURE")
                     ELSE LET mid == IF IsList(At(content, 2))
                                        THEN ValidateRows(At(content, 2).items, 1, num_cols_, check_geometry_)
                                        ELSE [err |-> OK, rows |-> 0, cells |-> 0]
                          IN  IF mid.err # OK THEN mid
                              ELSE LET bod == IF IsList(At(content, 3))
                                                 THEN ValidateRows(At(content, 3).items, 1, num_cols_, check_geometry_)
                                                 ELSE [err |-> OK, rows |-> 0, cells |-> 0]
                                   IN  [err |-> bod.err, rows |-> mid.rows + bod.rows,
                                        cells |-> mid.cells + bod.cells]
    IN
    IF i > Len(bodies) THEN [err |-> OK, rows |-> 0, cells |-> 0]
    ELSE LET r == validate_table_body(bodies[i], num_cols, check_geometry)
         IN  IF r.err # OK THEN r
             ELSE LET rest == ValidateBodies(bodies, i + 1, num_cols, check_geometry)
                  IN  [err |-> rest.err, rows |-> rest.rows + r.rows,
                       cells |-> rest.cells + r.cells]

\* _validate_table_structure: OK or error code
validate_table_structure(content, limits, check_geometry) ==
    LET col_specs == At(content, 2)
        table_head == At(content, 3)
        table_bodies == At(content, 4)
        table_foot == At(content, 5)
        num_cols == JLen(col_specs)
        \* rows and cells of an (already validated) head or foot section
        RECURSIVE SumCells(_, _)
        SumCells(rows, i) ==
            IF i > Len(rows) THEN 0
            ELSE (IF IsDict(rows[i]) /\ IsList(At(GetC(rows[i]), 1))
                     THEN JLen(At(GetC(rows[i]), 1)) ELSE 0) + SumCells(rows, i + 1)
        SectionRows(section) ==
            IF IsDict(section) /\ IsList(At(GetC(section), 1))
            THEN JLen(At(GetC(section), 1)) ELSE 0
        SectionCells(section) ==
            IF IsDict(section) /\ IsList(At(GetC(section), 1))
            THEN SumCells(At(GetC(section), 1).items, 1) ELSE 0
    IN
    IF ~IsList(col_specs) THEN "VAL_PANDOC_COLSPECS_TYPE"
    ELSE IF num_cols = 0 THEN "VAL_PANDOC_NO_COLUMNS"
    ELSE LET h == validate_table_section(table_head, "TableHead", num_cols, check_geometry)
         IN
         IF h # OK THEN h
         ELSE IF ~IsList(table_bodies) THEN "VAL_PANDOC_BODIES_TYPE"
         ELSE LET b == ValidateBodies(table_bodies.items, 1, num_cols, check_geometry)
              IN
              IF b.err # OK THEN b.err
              ELSE LET f == validate_table_section(table_foot, "TableFoot", num_cols, check_geometry)
                       total_rows == b.rows + SectionRows(table_head) + SectionRows(table_foot)
                       total_cells == b.cells + SectionCells(table_head) + SectionCells(table_foot)
                   IN
                   IF f # OK THEN f
                   ELSE IF num_cols > limits.max_table_cols THEN "VAL_PANDOC_EXCEEDS_MAX_COLS"
                   ELSE IF total_rows > limits.max_table_rows THEN "VAL_PANDOC_EXCEEDS_MAX_ROWS"
                   ELSE IF total_cells > limits.max_table_cells THEN "VAL_PANDOC_EXCEEDS_MAX_CELLS"
                   ELSE OK

\* validate_table_pandoc_v1: OK when the payload passes, else the code of the
\* ValidationError raised
validate_table_pandoc_v1(pl, opts, limits, check_geometry) ==
    IF ~IsDict(pl) THEN "VAL_PANDOC_NOT_OBJECT"
    ELSE IF pl.t # "Table" THEN "VAL_PANDOC_NOT_TABLE"
    ELSE LET content == IF Len(pl.items) = 0 THEN JList(<<>>) ELSE pl.items[1]
         IN  IF ~IsList(content) \/ JLen(content) < 6 THEN "VAL_PANDOC_TABLE_STRUCTURE"
             ELSE LET w == walk_pandoc(pl, "BLOCK", 0, opts)
                  IN  IF w # OK THEN w
                      ELSE validate_table_structure(content, limits, check_geometry)

\* ------------------------------------------------ generated table payloads
\* Pandoc JSON of the constructs a payload author can nest content in.
StrN == JNode("Str", JStr)
RawBlockN == JNode("RawBlock", JList(<<JStr, JStr>>))
ParaOf(inl) == JNode("Para", JList(<<inl>>))
CaptionOf(short, blocks) == JList(<<short, JList(blocks)>>)
CellOf(rowspan, colspan, blocks) ==
    JNode("Cell", JList(<<EmptyAttr, JTag("AlignDefault"), rowspan, colspan, JList(blocks)>>))
RowOf(cells) == JNode("Row", JList(<<EmptyAttr, JList(cells)>>))
TableOf(caption, ncols, headRows, midRows, bodyRows, footRows) ==
    JNode("Table", JList(<<EmptyAttr, caption, JList([i \in 1..ncols |->
                               JList(<<JTag("AlignDefault"), JTag("ColWidthDefault")>>)]),
                           JNode("TableHead", JList(<<EmptyAttr, JList(headRows)>>)),
                           JList(<<JNode("TableBody",
                                         JList(<<EmptyAttr, JInt(0), JList(midRows),
                                                 JList(bodyRows)>>))>>),
                           JNode("TableFoot", JList(<<EmptyAttr, JList(footRows)>>))>>))
OneCellRow(blocks) == RowOf(<<CellOf(JInt(1), JInt(1), blocks)>>)

\* Inlines(n) / Blocks(n): the inlines / blocks with up to n constructs
\* nested around a leaf; the leaves include RawInline and RawBlock
RECURSIVE Inlines(_), Blocks(_)
Inlines(n) ==
    LET JObj(vals) == [j |-> "dict", t |-> "", p |-> "", v |-> 0, items |-> <<>>, o |-> vals]
    IN
    LET Citation(prefix) == JObj(<<JStr, JList(prefix), JList(<<>>)>>)
        \* inline constructs around an inline x
        InlineAroundInline(x) ==
            { JNode("Emph", JList(<<x>>)),
              JNode("Span", JList(<<EmptyAttr, JList(<<x>>)>>)),
              JNode("Quoted", JList(<<JTag("DoubleQuote"), JList(<<x>>)>>)),
              JNode("Cite", JList(<<JList(<<Citation(<<>>)>>), JList(<<x>>)>>)),
              JNode("Cite", JList(<<JList(<<Citation(<<x>>)>>), JList(<<StrN>>)>>)),
              JNode("Link", JList(<<EmptyAttr, JList(<<x>>), JList(<<JStr, JStr>>)>>)) }
        \* inline construct around a block b
        InlineAroundBlock(b) == { JNode("Note", JList(<<b>>)) }
    IN  IF n = 0 THEN {StrN, JNode("RawInline", JList(<<JStr, JStr>>))}
        ELSE Inlines(0)
             \cup UNION {InlineAroundInline(x) : x \in Inlines(n - 1)}
             \cup UNION {InlineAroundBlock(b) : b \in Blocks(n - 1)}
Blocks(n) ==
    LET \* block constructs around an inline x
        BlockAroundInline(x) ==
            { ParaOf(x),
              JNode("Plain", JList(<<x>>)),
              JNode("Header", JList(<<JInt(1), EmptyAttr, JList(<<x>>)>>)),
              JNode("LineBlock", JList(<<JList(<<x>>)>>)),
              JNode("DefinitionList",
                    JList(<<JList(<<JList(<<x>>), JList(<<JList(<<>>)>>)>>)>>)) }
        \* block constructs around a block b
        BlockAroundBlock(b) ==
            { JNode("BlockQuote", JList(<<b>>)),
              JNode("BulletList", JList(<<JList(<<b>>)>>)),
              JNode("OrderedList",
                    JList(<<JList(<<JInt(1), JTag("Decimal"), JTag("Period")>>),
                            JList(<<JList(<<b>>)>>)>>)),
              JNode("DefinitionList",
                    JList(<<JList(<<JList(<<StrN>>), JList(<<JList(<<b>>)>>)>>)>>)),
              JNode("Figure", JList(<<EmptyAttr, CaptionOf(JNull, <<>>), JList(<<b>>)>>)),
              TableOf(CaptionOf(JNull, <<>>), 1, <<>>, <<>>, <<OneCellRow(<<b>>)>>, <<>>) }
    IN  IF n = 0 THEN {RawBlockN, ParaOf(StrN)}
        ELSE Blocks(0)
             \cup UNION {BlockAroundInline(x) : x \in Inlines(n - 1)}
             \cup UNION {BlockAroundBlock(b) : b \in Blocks(n - 1)}

\* columns of the generated tables
MaxCols == 3

\* a RawInline / RawBlock node anywhere in a JSON value
RECURSIVE ContainsRaw(_)
ContainsRaw(x) ==
    \/ (x.j = "dict" /\ x.t \in RAW_TYPES)
    \/ \E i \in 1..Len(x.items) : ContainsRaw(x.items[i])
    \/ \E i \in 1..Len(x.o) : ContainsRaw(x.o[i])

\* --------------------------------------------------------------- variables
WalkIdle ==
    /\ payload = JNull
    /\ allow_raw_pandoc = FALSE
    /\ vpc = "off"
    /\ vresult = "none"

\* ===================================================================
\* Part 2: document trees, the resolution planner and applier
\* ===================================================================
\* A tree node is a record [t, oid, id, cls, kv, c, s, v]:
\*   t   : node type ("Doc" is the top-level dict holding "blocks")
\*   oid : identity of the Python object (deepcopy makes new objects)
\*   id, cls, kv : Attr = [identifier, classes, [[key, value], ...]]
\*   c   : child blocks / inlines, in order
\*   s   : text, a sequence of atoms (" " is whitespace)
\*   v   : an integer slot (header level)
Node(t, id, cls, kv, c, s) ==
    [t |-> t, oid |-> 0, id |-> id, cls |-> cls, kv |-> kv, c |-> c, s |-> s, v |-> 0]
StrNode(atoms) == Node("Str", "", <<>>, <<>>, <<>>, atoms)
SpaceNode == Node("Space", "", <<>>, <<>>, <<>>, <<>>)
ParaNode(inlines) == Node("Para", "", <<>>, <<>>, inlines, <<>>)
DivNode(id, cls, kv, blocks) == Node("Div", id, cls, kv, blocks, <<>>)
NoTree == Node("None", "", <<>>, <<>>, <<>>, <<>>)

\* object identities: a fresh tree numbers its nodes 1, 2, ... in preorder;
\* copy.deepcopy gives every node of the copy a new identity
OidStride == 100
RECURSIVE TreeSize(_), Tag(_, _)
TreeSize(n) ==
    LET RECURSIVE SizeSum(_)
        SizeSum(i) == IF i > Len(n.c) THEN 0 ELSE TreeSize(n.c[i]) + SizeSum(i + 1)
    IN  1 + SizeSum(1)
Tag(n, k) ==
    LET RECURSIVE TagSeq(_, _)
        TagSeq(i, j) ==
            IF i > Len(n.c) THEN <<>>
            ELSE <<Tag(n.c[i], j)>> \o TagSeq(i + 1, j + TreeSize(n.c[i]))
    IN  [n EXCEPT !.oid = k, !.c = TagSeq(1, k + 1)]

\* variant: the "copy" is the object itself
deepcopy_alias(n) == n
RECURSIVE deepcopy(_)
deepcopy(n) == [n EXCEPT !.oid = n.oid + OidStride,
                         !.c = [i \in 1..Len(n.c) |-> deepcopy(n.c[i])]]

\* the tree as a value, identities erased
RECURSIVE Val(_)
Val(n) == [n EXCEPT !.oid = 0, !.c = [i \in 1..Len(n.c) |-> Val(n.c[i])]]

RECURSIVE Oids(_)
Oids(n) == {n.oid} \cup UNION {Oids(n.c[i]) : i \in 1..Len(n.c)}

\* What a reference `held` shows after the objects of tree `mutated` were
\* modified in place: an object both trees contain is seen in its new state.
RECURSIVE Seen(_, _)
Seen(held, mutated) ==
    LET \* the nodes of tree n whose identity is k
        RECURSIVE Lookup(_, _)
        Lookup(n, k) ==
            IF n.oid = k THEN {n} ELSE UNION {Lookup(n.c[i], k) : i \in 1..Len(n.c)}
    IN  IF Lookup(mutated, held.oid) # {}
        THEN CHOOSE m \in Lookup(mutated, held.oid) : TRUE
        ELSE [held EXCEPT !.c = [i \in 1..Len(held.c) |-> Seen(held.c[i], mutated)]]

\* ----------------------------------------------------------- placeholders
Token(kind) == <<"[[COMPUTED:", kind, "]]">>
\* PLACEHOLDERS: token text -> kind
PLACEHOLDERS == {Token(k) : k \in {"METRIC", "TABLE", "FIGURE"}}

\* str.strip() on atom text
Strip(a) ==
    LET RECURSIVE LStrip(_), RStrip(_)
        LStrip(x) == IF Len(x) > 0 /\ x[1] = " " THEN LStrip(Tail(x)) ELSE x
        RStrip(x) ==
            IF Len(x) > 0 /\ x[Len(x)] = " " THEN RStrip(SubSeq(x, 1, Len(x) - 1)) ELSE x
    IN  RStrip(LStrip(a))

\* is_placeholder_block: the placeholder kind, or "" for None
is_placeholder_block(block) ==
    LET \* extract_placeholder_text: <<>> stands for None
        extract_placeholder_text(block_) ==
            LET \* "".join of the text of the Str inlines
                RECURSIVE JoinStr(_)
                JoinStr(i) ==
                    IF i > Len(block_.c) THEN <<>>
                    ELSE (IF block_.c[i].t = "Str" THEN block_.c[i].s ELSE <<>>) \o JoinStr(i + 1)
            IN  IF block_.t # "Para" THEN <<>>
                ELSE IF Len(block_.c) = 0 THEN <<>>
                ELSE IF \E i \in 1..Len(block_.c) :
                            block_.c[i].t \notin {"Str", "Space", "SoftBreak"}
                     THEN <<>>
                ELSE Strip(JoinStr(1))
    IN
    LET text == extract_placeholder_text(block)
    IN  IF text # <<>> /\ text \in PLACEHOLDERS THEN text[2] ELSE ""

\* find_placeholders_in_blocks: sequence of <<kind, index>> (0-based index)
\* variant: stops at the first placeholder found
find_placeholders_in_blocks_first(blocks) ==
    LET RECURSIVE FindFrom(_)
        FindFrom(i) ==
            IF i > Len(blocks) THEN <<>>
            ELSE IF is_placeholder_block(blocks[i]) # ""
                 THEN << <<is_placeholder_block(blocks[i]), i - 1>> >>
            ELSE FindFrom(i + 1)
    IN  FindFrom(1)
find_placeholders_in_blocks(blocks) ==
    LET RECURSIVE FindFrom(_)
        FindFrom(i) ==
            IF i > Len(blocks) THEN <<>>
            ELSE (IF is_placeholder_block(blocks[i]) # ""
                     THEN << <<is_placeholder_block(blocks[i]), i - 1>> >> ELSE <<>>)
                 \o FindFrom(i + 1)
    IN  FindFrom(1)

\* ----------------------------------------------------------------- planner
\* dict(attr[2]).get(key, default): the last pair with the key wins
AttrGet(kv, key, default) ==
    LET RECURSIVE AttrFrom(_)
        AttrFrom(i) ==
            IF i = 0 THEN default
            ELSE IF kv[i][1] = key THEN kv[i][2] ELSE AttrFrom(i - 1)
    IN  AttrFrom(Len(kv))

is_computed_wrapper(div) == AttrGet(div.kv, "role", "") = "computed"

NoErr == [kind |-> "none", semantic_id |-> "", expected |-> <<>>, actual |-> <<>>,
          code |-> ""]
Raise(kind, semantic_id) == [NoErr EXCEPT !.kind = kind, !.semantic_id = semantic_id]
is_strict_target(cfg) == cfg.target \in {"external", "dossier"}

\* the body of the loop of build_plan for the block at wrapper_idx (0-based):
\* [err, item] where item is <<>> (nothing planned) or <<ResolutionItem>>
PlanBlock(block, wrapper_idx, reg, cfg) ==
    LET ARTIFACT_TYPE_TO_KIND(artifact_type) ==
            CASE artifact_type = "metric" -> "METRIC"
              [] artifact_type = "table" -> "TABLE"
              [] artifact_type = "figure" -> "FIGURE"
              [] OTHER -> ""
    IN
    LET get_div_id(div) == IF div.t # "Div" THEN "" ELSE div.id
    IN
    LET none == [err |-> NoErr, item |-> <<>>]
        semantic_id == get_div_id(block)
        wrapper_kind == AttrGet(block.kv, "kind", "")
        placeholders == find_placeholders_in_blocks(block.c)
    IN
    IF block.t # "Div" THEN none
    ELSE IF ~is_computed_wrapper(block) THEN none
    ELSE IF semantic_id = "" THEN none
    ELSE IF Len(placeholders) = 0
         THEN [err |-> Raise("PlaceholderError", semantic_id), item |-> <<>>]
    ELSE IF Len(placeholders) > 1
         THEN [err |-> Raise("PlaceholderError", semantic_id), item |-> <<>>]
    ELSE IF semantic_id \notin DOMAIN reg
         THEN (IF cfg.strict \/ is_strict_target(cfg)
                  THEN [err |-> Raise("RegistryError", semantic_id), item |-> <<>>]
                  ELSE none)
    ELSE IF placeholders[1][1] # ARTIFACT_TYPE_TO_KIND(reg[semantic_id].artifact_type)
         THEN [err |-> [Raise("KindMismatchError", semantic_id)
                           EXCEPT !.expected = <<wrapper_kind>>,
                                  !.actual = <<reg[semantic_id].artifact_type>>],
               item |-> <<>>]
    ELSE [err |-> NoErr,
          item |-> << [semantic_id |-> semantic_id, entry |-> reg[semantic_id],
                       wrapper_index |-> wrapper_idx,
                       placeholder_index |-> placeholders[1][2],
                       placeholder |-> placeholders[1][1]] >>]

\* variant: a block that yields no item ends the loop (break for continue)
build_plan_break(tree, reg, cfg) ==
    LET RECURSIVE PlanFrom(_)
        PlanRest(r, rest) ==
            [err |-> rest.err,
             items |-> IF rest.err.kind # "none" THEN <<>> ELSE r.item \o rest.items]
        PlanStep(r, i) ==
            IF r.err.kind # "none" THEN [err |-> r.err, items |-> <<>>]
            ELSE IF r.item = <<>> THEN [err |-> NoErr, items |-> <<>>]
            ELSE PlanRest(r, PlanFrom(i + 1))
        PlanFrom(i) ==
            IF i > Len(tree.c) THEN [err |-> NoErr, items |-> <<>>]
            ELSE PlanStep(PlanBlock(tree.c[i], i - 1, reg, cfg), i)
    IN  PlanFrom(1)
\* build_plan: [err, items]; the first raising block aborts the loop
build_plan(tree, reg, cfg) ==
    LET RECURSIVE PlanFrom(_)
        PlanRest(r, rest) ==
            [err |-> rest.err,
             items |-> IF rest.err.kind # "none" THEN <<>> ELSE r.item \o rest.items]
        PlanStep(r, i) ==
            IF r.err.kind # "none" THEN [err |-> r.err, items |-> <<>>]
            ELSE PlanRest(r, PlanFrom(i + 1))
        PlanFrom(i) ==
            IF i > Len(tree.c) THEN [err |-> NoErr, items |-> <<>>]
            ELSE PlanStep(PlanBlock(tree.c[i], i - 1, reg, cfg), i)
    IN  PlanFrom(1)

\* ----------------------------------------------------------------- loaders
\* compute_sha256 of file bytes: "sha256:" + hex digest (injective on the
\* small set of file contents)
compute_sha256(bytes) == <<"sha256", bytes>>

\* json.load of the file: what each file content of the model parses to
FileContent(bytes) ==
    CASE bytes = "M_ok" -> [json |-> TRUE, name |-> bytes, t |-> "", label |-> "str",
                            value |-> JInt(3), node |-> JNull]
      [] bytes = "M_alt" -> [json |-> TRUE, name |-> bytes, t |-> "", label |-> "str",
                             value |-> JInt(4), node |-> JNull]
      [] bytes = "M_bool" -> [json |-> TRUE, name |-> bytes, t |-> "", label |-> "str",
                              value |-> [JInt(1) EXCEPT !.p = "bool"], node |-> JNull]
      [] bytes = "T_ok" -> [json |-> TRUE, name |-> bytes, t |-> "Table", label |-> "missing",
                            value |-> JNull,
                            node |-> TableOf(CaptionOf(JNull, <<>>), 1, <<>>, <<>>,
                                             <<OneCellRow(<<ParaOf(StrN)>>)>>, <<>>)]
      [] bytes = "T_raw" -> [json |-> TRUE, name |-> bytes, t |-> "Table", label |-> "missing",
                             value |-> JNull,
                             node |-> TableOf(CaptionOf(JNull, <<>>), 1, <<>>, <<>>,
                                              <<OneCellRow(<<RawBlockN>>)>>, <<>>)]
      [] OTHER -> [json |-> FALSE, name |-> bytes, t |-> "", label |-> "missing",
                   value |-> JNull, node |-> JNull]

\* verify_hash: NoErr, HashMismatchError, or the FileNotFoundError of open()
verify_hash(bytes, expected, semantic_id) ==
    IF bytes = "missing" THEN Raise("FileNotFoundError", semantic_id)
    ELSE IF compute_sha256(bytes) # expected
         THEN [Raise("HashMismatchError", semantic_id)
                  EXCEPT !.expected = expected, !.actual = compute_sha256(bytes)]
    ELSE NoErr
\* load_metric_v1 / load_table_pandoc_v1: [err, payload]
load_payload(entry, files, verify, expected_spec) ==
    LET \* load_json_file
        load_json_file(bytes, semantic_id) ==
            IF bytes = "missing" THEN Raise("PayloadError", semantic_id)
            ELSE IF ~FileContent(bytes).json THEN Raise("PayloadError", semantic_id)
            ELSE NoErr
    IN
    LET bytes == files[entry.uri]
        h == IF verify THEN verify_hash(bytes, entry.sha256, entry.id) ELSE NoErr
        l == load_json_file(bytes, entry.id)
    IN  IF entry.spec # expected_spec
            THEN [err |-> Raise("PayloadError", entry.id), payload |-> FileContent("missing")]
        ELSE IF h.kind # "none" THEN [err |-> h, payload |-> FileContent("missing")]
        ELSE IF l.kind # "none" THEN [err |-> l, payload |-> FileContent("missing")]
        ELSE IF expected_spec = "table.pandoc.json@v1" /\ FileContent(bytes).t # "Table"
            THEN [err |-> Raise("PayloadError", entry.id), payload |-> FileContent("missing")]
        ELSE [err |-> NoErr, payload |-> FileContent(bytes)]

\* validate_metric_v1 (label and value checks): OK or error code
validate_metric_v1(pl) ==
    IF pl.label = "missing" THEN "VAL_METRIC_LABEL_TYPE"
    ELSE IF pl.label = "empty" THEN "VAL_METRIC_LABEL_EMPTY"
    ELSE IF pl.value.j = "prim" /\ pl.value.p = "bool" THEN "VAL_METRIC_VALUE_BOOL"
    ELSE IF ~(pl.value.j = "prim" /\ pl.value.p \in {"int", "float", "nan"})
         THEN "VAL_METRIC_VALUE_TYPE"
    ELSE IF pl.value.p = "nan" THEN "VAL_METRIC_VALUE_NONFINITE"
    ELSE OK

\* ----------------------------------------------------------------- applier
\* _resolve_item: [err, block].  ValidatePayload is the validator call of the
\* branch taken, Emitted the rest of the branch once the loader has returned.
ValidatePayload(spec, pl, cfg) ==
    IF spec = "metric.json@v1" THEN validate_metric_v1(pl)
    ELSE validate_table_pandoc_v1(pl.node,
             [allow_raw |-> cfg.allow_raw_pandoc, allow_nested_tables |-> FALSE,
              allow_figures_in_cells |-> FALSE, allow_images_in_cells |-> TRUE],
             DefaultLimits, TRUE)
Emitted(item, loaded, v) ==
    LET \* emit_metric_as_table / emit_pandoc_table: the block spliced into the tree,
        \* a newly built object
        Emit(pl, wrapper_index) ==
            [Node("Table", "", <<>>, <<>>, <<>>, <<pl.name>>)
                EXCEPT !.oid = 3 * OidStride + wrapper_index, !.v = pl.value.v]
    IN
    IF loaded.err.kind # "none" THEN [err |-> loaded.err, block |-> NoTree]
    ELSE IF v # OK
         THEN [err |-> [Raise("ValidationError", item.entry.id) EXCEPT !.code = v],
               block |-> NoTree]
    ELSE [err |-> NoErr, block |-> Emit(loaded.payload, item.wrapper_index)]
Validated(item, loaded, cfg) ==
    Emitted(item, loaded, ValidatePayload(item.entry.spec, loaded.payload, cfg))
resolve_item(item, files, cfg) ==
    IF item.entry.spec \in {"metric.json@v1", "table.pandoc.json@v1"}
    THEN Validated(item, load_payload(item.entry, files, cfg.strict, item.entry.spec), cfg)
    ELSE [err |-> Raise("PayloadError", item.entry.id), block |-> NoTree]

\* variant: the replacement is inserted before the placeholder
replace_placeholder_in_wrapper_insert(wrapper, placeholder_idx, replacement) ==
    IF 0 <= placeholder_idx /\ placeholder_idx < Len(wrapper.c)
    THEN [wrapper EXCEPT !.c = SubSeq(@, 1, placeholder_idx) \o <<replacement>>
                                \o SubSeq(@, placeholder_idx + 1, Len(@))]
    ELSE wrapper
\* _replace_placeholder_in_wrapper (in place on the wrapper object)
replace_placeholder_in_wrapper(wrapper, placeholder_idx, replacement) ==
    IF 0 <= placeholder_idx /\ placeholder_idx < Len(wrapper.c)
    THEN [wrapper EXCEPT !.c[placeholder_idx + 1] = replacement]
    ELSE wrapper

\* variant: the wrapper is dissolved, its blocks take its place at top level
SpliceItem_dissolve(result, item, replacement) ==
    IF 0 <= item.wrapper_index /\ item.wrapper_index < Len(result.c)
    THEN [result EXCEPT !.c =
              SubSeq(@, 1, item.wrapper_index)
              \o replace_placeholder_in_wrapper(@[item.wrapper_index + 1],
                                                 item.placeholder_index, replacement).c
              \o SubSeq(@, item.wrapper_index + 2, Len(@))]
    ELSE result
\* one iteration of the loop of apply_plan after the replacement was resolved
SpliceItem(result, item, replacement) ==
    IF 0 <= item.wrapper_index /\ item.wrapper_index < Len(result.c)
    THEN [result EXCEPT !.c[item.wrapper_index + 1] =
              replace_placeholder_in_wrapper(@, item.placeholder_index, replacement)]
    ELSE result

\* ------------------------------------------------- generated planner input
Ids == {"a", "b"}
PH(kind) == ParaNode(<<StrNode(Token(kind))>>)
\* a token split over two Str inlines with whitespace around it
PHSplit(kind) == ParaNode(<<SpaceNode, StrNode(<<" ", "[[COMPUTED:">>), StrNode(<<kind, "]]", " ">>)>>)
TextPara == ParaNode(<<StrNode(<<"x">>)>>)
ComputedDiv(id, kind, blocks) ==
    DivNode(id, <<>>, << <<"role", "computed">>, <<"kind", kind>> >>, blocks)

DocsOf(blockSet, n) ==
    LET DocNode(blocks) == Node("Doc", "", <<>>, <<>>, blocks, <<>>)
    IN
    { Tag(DocNode(bs), 1) : bs \in UNION { [1..k -> blockSet] : k \in 1..n } }

\* registry.entries: a dict of RegistryEntry keyed by semantic id
Registries ==
    LET MetricEntry(id) ==
            [id |-> id, artifact_type |-> "metric", spec |-> "metric.json@v1",
             uri |-> id, sha256 |-> compute_sha256("M_ok"),
             meta |-> "", meta_sha256 |-> <<>>]
        TableEntry(id) ==
            [id |-> id, artifact_type |-> "table", spec |-> "table.pandoc.json@v1",
             uri |-> id, sha256 |-> compute_sha256("T_ok"),
             meta |-> "", meta_sha256 |-> <<>>]
    IN  { [i \in dom |-> IF i = "a" THEN ea ELSE MetricEntry("b")] :
            dom \in SUBSET Ids, ea \in {MetricEntry("a"), TableEntry("a")} }
Configs == [target : {"internal", "external", "dossier"}, strict : BOOLEAN,
            allow_raw_pandoc : {FALSE}]

\* apply_plan and resolve as functions of their arguments: [err, tree]
RECURSIVE ApplyFrom(_, _, _, _, _)
ApplyStep(result, items, i, files, cfg, r) ==
    IF r.err.kind # "none" THEN [err |-> r.err, tree |-> NoTree]
    ELSE ApplyFrom(SpliceItem(result, items[i], r.block), items, i + 1, files, cfg)
ApplyFrom(result, items, i, files, cfg) ==
    IF i > Len(items) THEN [err |-> NoErr, tree |-> result]
    ELSE ApplyStep(result, items, i, files, cfg, resolve_item(items[i], files, cfg))
resolve(tree, reg, files, cfg) ==
    LET apply_plan(tree_, items, files_, cfg_) == ApplyFrom(deepcopy(tree_), items, 1, files_, cfg_)
    IN
    LET p == build_plan(tree, reg, cfg)
    IN  IF p.err.kind # "none" THEN [err |-> p.err, tree |-> NoTree]
        ELSE apply_plan(tree, p.items, files, cfg)

\* ================================================================
\* Part 3: the filter stages (visibility, policy, metadata strip,
\* presentation) on the document tree
\* ================================================================
\* a CodeBlock holds its text as the sequence of its lines
CodeBlockNode(lines) == Node("CodeBlock", "", <<>>, <<>>, <<>>, lines)
Range(seq) == {seq[i] : i \in 1..Len(seq)}

\* ------------------------------------------------------- utils/wrappers.py
is_semantic_wrapper(block) == block.t = "Div" /\ block.id # ""
\* get_wrapper_id: "" stands for None
get_wrapper_id(div) == IF is_semantic_wrapper(div) THEN div.id ELSE ""
get_wrapper_attr(div, key) == AttrGet(div.kv, key, "")
get_visibility(div) ==
    IF get_wrapper_attr(div, "visibility") = "" THEN "internal"
    ELSE get_wrapper_attr(div, "visibility")
\* the comma-separated policies attribute, split and stripped, then the classes
get_policies(div) ==
    LET policies_str == get_wrapper_attr(div, "policies")
    IN  (CASE policies_str = "" -> <<>>
           [] policies_str = "draft, additional" -> <<"draft", "additional">>
           [] OTHER -> <<policies_str>>)
        \o div.cls
is_additional(div) ==
    \/ "additional" \in Range(get_policies(div))
    \/ get_wrapper_attr(div, "presentation") = "additional"
\* del_wrapper_attr: deletes the first pair that has the key
del_wrapper_attr(kv, key) ==
    LET RECURSIVE DelFrom(_)
        DelFrom(i) ==
            IF i > Len(kv) THEN kv
            ELSE IF kv[i][1] = key THEN SubSeq(kv, 1, i - 1) \o SubSeq(kv, i + 1, Len(kv))
            ELSE DelFrom(i + 1)
    IN  DelFrom(1)

\* iter_wrappers: the wrappers in document order; the walk goes down through
\* Divs (semantic or not) and through nothing else
iter_wrappers(tree) ==
    LET RECURSIVE iter_blocks(_, _)
        iter_blocks(block_list, i) ==
            IF i > Len(block_list) THEN <<>>
            ELSE (IF block_list[i].t = "Div"
                  THEN (IF is_semantic_wrapper(block_list[i])
                        THEN <<block_list[i]>> ELSE <<>>)
                       \o iter_blocks(block_list[i].c, 1)
                  ELSE <<>>)
                 \o iter_blocks(block_list, i + 1)
    IN  iter_blocks(tree.c, 1)

\* -------------------------------------------------------- utils/ast_walk.py
\* remove_blocks_by_ids: on a deep copy, _filter_blocks drops the wrappers
\* named in ids_to_remove and goes down through the Divs it keeps
remove_blocks_by_ids(tree, ids_to_remove) ==
    LET RECURSIVE filter_blocks(_, _)
        filter_blocks(block_list, i) ==
            IF i > Len(block_list) THEN <<>>
            ELSE IF /\ get_wrapper_id(block_list[i]) # ""
                    /\ get_wrapper_id(block_list[i]) \in ids_to_remove
                 THEN filter_blocks(block_list, i + 1)
            ELSE << IF block_list[i].t = "Div"
                    THEN [block_list[i] EXCEPT !.c = filter_blocks(@, 1)]
                    ELSE block_list[i] >>
                 \o filter_blocks(block_list, i + 1)
    IN  [deepcopy(tree) EXCEPT !.c = filter_blocks(@, 1)]

\* ------------------------------------------------------------- config.py
visibility_order(visibility) ==
    CASE visibility = "internal" -> 0
      [] visibility = "external" -> 1
      [] visibility = "dossier" -> 2
      [] OTHER -> 0
get_allowed_visibility_level(target) == visibility_order(target)
forbidden_policies(target) ==
    CASE target = "external" -> {"internal-only", "draft", "wip"}
      [] target = "dossier" -> {"internal-only", "draft", "wip", "verbose"}
      [] OTHER -> {}
protected_attrs == {"id", "role", "kind", "visibility", "policies"}

\* ---------------------------------------------------------- visibility.py
\* variant: removes every wrapper whose level differs from the target's
filter_visibility_ne(tree, build_target) ==
    LET target_level == get_allowed_visibility_level(build_target)
        wrappers == iter_wrappers(tree)
        ids_to_remove ==
            { wrappers[k].id : k \in
                { n \in 1..Len(wrappers) :
                    visibility_order(get_visibility(wrappers[n])) # target_level } }
    IN  IF ids_to_remove # {} THEN remove_blocks_by_ids(tree, ids_to_remove)
        ELSE deepcopy(tree)
\* filter_visibility: collects the ids of the wrappers below the target's
\* level, then removes the blocks that carry one of these ids
filter_visibility(tree, build_target) ==
    LET target_level == get_allowed_visibility_level(build_target)
        wrappers == iter_wrappers(tree)
        ids_to_remove ==
            { wrappers[k].id : k \in
                { n \in 1..Len(wrappers) :
                    visibility_order(get_visibility(wrappers[n])) < target_level } }
    IN  IF ids_to_remove # {} THEN remove_blocks_by_ids(tree, ids_to_remove)
        ELSE deepcopy(tree)

\* --------------------------------------------------------------- policy.py
filter_policy(tree, build_target) ==
    LET forbidden == forbidden_policies(build_target)
        wrappers == iter_wrappers(tree)
        ids_to_remove ==
            { wrappers[k].id : k \in
                { n \in 1..Len(wrappers) :
                    Range(get_policies(wrappers[n])) \cap forbidden # {} } }
    IN  IF forbidden = {} THEN deepcopy(tree)
        ELSE IF ids_to_remove # {} THEN remove_blocks_by_ids(tree, ids_to_remove)
        ELSE deepcopy(tree)

\* ------------------------------------------------------- metadata_strip.py
\* variant: strips the configured keys, protected or not
filter_metadata_strip_unprotected(tree, cfg, build_target) ==
    LET strip_keys == CASE build_target = "internal" -> {}
                        [] build_target = "external" -> cfg.strip_attrs_external
                        [] OTHER -> cfg.strip_attrs_dossier
        RECURSIVE DelKeys(_, _)
        DelKeys(kv, keys) ==
            IF keys = {} THEN kv
            ELSE DelKeys(del_wrapper_attr(kv, CHOOSE k \in keys : TRUE),
                         keys \ {CHOOSE k \in keys : TRUE})
        StripDiv(div) ==
            [div EXCEPT !.kv = DelKeys(@, {@[i][1] : i \in 1..Len(@)} \cap strip_keys)]
        RECURSIVE process_blocks(_)
        process_blocks(block_list) ==
            [i \in 1..Len(block_list) |->
                IF block_list[i].t # "Div" THEN block_list[i]
                ELSE [(IF is_semantic_wrapper(block_list[i])
                       THEN StripDiv(block_list[i]) ELSE block_list[i])
                         EXCEPT !.c = process_blocks(@)]]
    IN  IF strip_keys = {} THEN deepcopy(tree)
        ELSE [deepcopy(tree) EXCEPT !.c = process_blocks(@)]
\* filter_metadata_strip: on a deep copy, every wrapper iter_wrappers yields
\* loses, for each of its keys that is configured for the target and not
\* protected, the pair del_wrapper_attr deletes
filter_metadata_strip(tree, cfg, build_target) ==
    LET \* get_strip_attrs
        strip_keys == CASE build_target = "internal" -> {}
                        [] build_target = "external" -> cfg.strip_attrs_external
                        [] OTHER -> cfg.strip_attrs_dossier
        RECURSIVE DelKeys(_, _)
        DelKeys(kv, keys) ==
            IF keys = {} THEN kv
            ELSE DelKeys(del_wrapper_attr(kv, CHOOSE k \in keys : TRUE),
                         keys \ {CHOOSE k \in keys : TRUE})
        StripDiv(div) ==
            [div EXCEPT !.kv = DelKeys(@, ({@[i][1] : i \in 1..Len(@)} \cap strip_keys)
                                            \ cfg.protected_attrs)]
        RECURSIVE process_blocks(_)
        process_blocks(block_list) ==
            [i \in 1..Len(block_list) |->
                IF block_list[i].t # "Div" THEN block_list[i]
                ELSE [(IF is_semantic_wrapper(block_list[i])
                       THEN StripDiv(block_list[i]) ELSE block_list[i])
                         EXCEPT !.c = process_blocks(@)]]
    IN  IF strip_keys = {} THEN deepcopy(tree)
        ELSE [deepcopy(tree) EXCEPT !.c = process_blocks(@)]

\* ----------------------------------------------------- utils/text_metrics.py
RECURSIVE SumLen(_, _)
SumLen(atoms, i) == IF i > Len(atoms) THEN 0 ELSE Len(atoms[i]) + SumLen(atoms, i + 1)
count_codeblock_lines(codeblock) ==
    IF codeblock.t # "CodeBlock" THEN 0 ELSE Len(codeblock.s)
\* the characters of the lines and the newlines between them
count_codeblock_chars(codeblock) ==
    IF codeblock.t # "CodeBlock" \/ Len(codeblock.s) = 0 THEN 0
    ELSE SumLen(codeblock.s, 1) + Len(codeblock.s) - 1
RECURSIVE estimate_inlines_chars(_, _)
estimate_inlines_chars(inlines, i) ==
    IF i > Len(inlines) THEN 0
    ELSE (CASE inlines[i].t \in {"Str", "Code"} -> SumLen(inlines[i].s, 1)
            [] inlines[i].t \in {"Space", "SoftBreak", "LineBreak"} -> 1
            [] inlines[i].t \in {"Emph", "Strong", "Strikeout", "Superscript", "Subscript",
                                 "SmallCaps", "Underline", "Link", "Span"} ->
                   estimate_inlines_chars(inlines[i].c, 1)
            [] OTHER -> 0)
         + estimate_inlines_chars(inlines, i + 1)
RECURSIVE estimate_block_chars(_)
estimate_block_chars(block) ==
    LET RECURSIVE total(_, _)
        total(blocks, i) ==
            IF i > Len(blocks) THEN 0
            ELSE estimate_block_chars(blocks[i]) + total(blocks, i + 1)
    IN  CASE block.t = "CodeBlock" -> count_codeblock_chars(block)
          [] block.t \in {"Para", "Plain", "Header"} -> estimate_inlines_chars(block.c, 1)
          [] block.t \in {"BulletList", "OrderedList", "Div", "BlockQuote"} ->
                 total(block.c, 1)
          [] block.t = "Table" -> 100
          [] OTHER -> 0
estimate_div_blocks(div) == IF div.t # "Div" THEN 0 ELSE Len(div.c)

\* ------------------------------------------------------ utils/sectioning.py
make_anchor_id(semantic_id, prefix) ==
    LET \* slugify on the identifiers of the model: lower case, nothing else to change
        slugify(text) == CASE text = "P" -> "p" [] OTHER -> text
    IN
    prefix \o "-" \o slugify(semantic_id)
make_header(level, text, anchor_id) ==
    [Node("Header", anchor_id, <<>>, <<>>, <<StrNode(text)>>, <<>>) EXCEPT !.v = level]
RECURSIVE extract_text_from_inlines(_, _)
extract_text_from_inlines(inlines, i) ==
    IF i > Len(inlines) THEN <<>>
    ELSE (CASE inlines[i].t = "Str" -> inlines[i].s
            [] inlines[i].t = "Space" -> <<" ">>
            [] inlines[i].t \in {"Emph", "Strong", "Underline"} ->
                   extract_text_from_inlines(inlines[i].c, 1)
            [] OTHER -> <<>>)
         \o extract_text_from_inlines(inlines, i + 1)
make_stub_para(text, link_text, link_target) ==
    ParaNode(<<StrNode(text), SpaceNode,
               Node("Link", "", <<>>, <<>>, <<StrNode(link_text)>>, link_target)>>)

\* ---------------------------------------------------------- presentation.py
\* T1: long code blocks become stubs, at top level and inside Divs
transform_pdf_code_blocks(tree, thresholds) ==
    LET \* _make_code_stub: a stub paragraph linking to code_snippets/<hash of the
        \* text>.txt, then the preview of the first lines
        make_code_stub(codeblock, thresholds_) ==
            LET link_target == <<"code_snippets/", "sha256">> \o codeblock.s \o <<".txt">>
                n == thresholds_.pdf_code_preview_lines
                preview ==
                    SubSeq(codeblock.s, 1, IF n < Len(codeblock.s) THEN n ELSE Len(codeblock.s))
                    \o (IF Len(codeblock.s) > n THEN <<"# ... (truncated)">> ELSE <<>>)
            IN  << make_stub_para(<<"Code snippet omitted from PDF. See:">>,
                                  link_target, link_target) >>
                \o (IF n > 0
                    THEN << [CodeBlockNode(preview)
                                EXCEPT !.id = codeblock.id, !.cls = codeblock.cls,
                                       !.kv = codeblock.kv] >>
                    ELSE <<>>)
    IN
    LET RECURSIVE process_blocks(_, _)
        process_blocks(blocks, i) ==
            IF i > Len(blocks) THEN <<>>
            ELSE (IF blocks[i].t = "CodeBlock"
                  THEN (IF \/ count_codeblock_lines(blocks[i]) > thresholds.pdf_code_max_lines
                           \/ count_codeblock_chars(blocks[i]) > thresholds.pdf_code_max_chars
                        THEN make_code_stub(blocks[i], thresholds) ELSE <<blocks[i]>>)
                  ELSE IF blocks[i].t = "Div"
                  THEN <<[blocks[i] EXCEPT !.c = process_blocks(@, 1)]>>
                  ELSE <<blocks[i]>>)
                 \o process_blocks(blocks, i + 1)
    IN  [tree EXCEPT !.c = process_blocks(@, 1)]

\* the test of T2 on one wrapper: additional and over a threshold
ToMove(div, thresholds) ==
    /\ is_additional(div)
    /\ \/ estimate_div_blocks(div) > thresholds.appendix_threshold_blocks
       \/ estimate_block_chars(div) > thresholds.appendix_threshold_chars
\* T2: the content of long additional wrappers goes to the appendix, a stub
\* takes the place of each wrapper
transform_pdf_additional_to_appendix(tree, thresholds, opts) ==
    LET ensure_appendix_section(tree_, opts_) ==
            LET \* find_appendix_index: 1-based position of the first Header whose stripped,
                \* lower-cased text is the lower-cased title; 0 for None
                find_appendix_index(blocks, title) ==
                    LET lower(atoms) ==
                            [i \in 1..Len(atoms) |->
                                IF atoms[i] \in {"Appendix", "APPENDIX"} THEN "appendix" ELSE atoms[i]]
                        RECURSIVE find_from(_)
                        find_from(i) ==
                            IF i > Len(blocks) THEN 0
                            ELSE IF /\ blocks[i].t = "Header"
                                    /\ lower(Strip(extract_text_from_inlines(blocks[i].c, 1)))
                                           = lower(<<title>>)
                                 THEN i
                            ELSE find_from(i + 1)
                    IN  find_from(1)
            IN
            IF find_appendix_index(tree_.c, opts_.title) # 0 THEN tree_
            ELSE [tree_ EXCEPT !.c = Append(@, make_header(1, <<opts_.title>>,
                                                          opts_.anchor_prefix \o "-section"))]
    IN
    LET append_to_appendix(tree_, subsection_title, content_blocks, anchor_id) ==
            [tree_ EXCEPT !.c = @ \o <<make_header(2, subsection_title, anchor_id)>> \o content_blocks]
    IN
    LET wrappers == iter_wrappers(tree)
        RECURSIVE to_move(_)
        to_move(i) ==
            IF i > Len(wrappers) THEN <<>>
            ELSE (IF ToMove(wrappers[i], thresholds) THEN <<wrappers[i]>> ELSE <<>>)
                 \o to_move(i + 1)
        RECURSIVE append_moved(_, _, _)
        append_moved(t, moved, i) ==
            IF i > Len(moved) THEN t
            ELSE append_moved(
                     append_to_appendix(t, <<"Additional: ", moved[i].id>>, moved[i].c,
                                        make_anchor_id(moved[i].id, opts.anchor_prefix)),
                     moved, i + 1)
        RECURSIVE replace_with_stub(_, _, _)
        replace_with_stub(block_list, i, ids) ==
            IF i > Len(block_list) THEN <<>>
            ELSE << IF /\ get_wrapper_id(block_list[i]) # ""
                       /\ get_wrapper_id(block_list[i]) \in ids
                    THEN make_stub_para(
                             <<"[Moved to ", opts.title, "]">>, <<block_list[i].id>>,
                             <<"#", make_anchor_id(block_list[i].id, opts.anchor_prefix)>>)
                    ELSE IF block_list[i].t = "Div"
                    THEN [block_list[i] EXCEPT !.c = replace_with_stub(@, 1, ids)]
                    ELSE block_list[i] >>
                 \o replace_with_stub(block_list, i + 1, ids)
        move(moved) ==
            [append_moved(ensure_appendix_section(tree, opts), moved, 1)
                EXCEPT !.c = replace_with_stub(@, 1, {moved[k].id : k \in 1..Len(moved)})]
    IN  IF to_move(1) = <<>> THEN tree ELSE move(to_move(1))

\* filter_presentation: T1 then T2 for pdf, T3 for html (T4 only reports), on
\* a deep copy of its input
filter_presentation(tree, render_target, thresholds, opts) ==
    LET \* T3: long additional wrappers get the fold attributes
        transform_html_fold_additional(tree_, thresholds_) ==
            LET \* _make_foldable (in place on the wrapper)
                make_foldable(div, title) ==
                    [div EXCEPT !.cls = IF "foldable" \in Range(@) THEN @ ELSE Append(@, "foldable"),
                                !.kv = @ \o << <<"data-title", title>>, <<"data-collapsed", "true">> >>]
            IN
            LET to_fold(div) ==
                    /\ is_additional(div)
                    /\ \/ estimate_div_blocks(div) > thresholds_.html_fold_threshold_blocks
                       \/ estimate_block_chars(div) > thresholds_.html_fold_threshold_chars
                RECURSIVE process_blocks(_)
                process_blocks(block_list) ==
                    [i \in 1..Len(block_list) |->
                        IF block_list[i].t # "Div" THEN block_list[i]
                        ELSE [(IF is_semantic_wrapper(block_list[i]) /\ to_fold(block_list[i])
                               THEN make_foldable(block_list[i], "Additional: " \o block_list[i].id)
                               ELSE block_list[i])
                                 EXCEPT !.c = process_blocks(@)]]
            IN  [tree_ EXCEPT !.c = process_blocks(@)]
    IN
    IF render_target = "pdf"
    THEN transform_pdf_additional_to_appendix(
             transform_pdf_code_blocks(deepcopy(tree), thresholds), thresholds, opts)
    ELSE IF render_target = "html"
    THEN transform_html_fold_additional(deepcopy(tree), thresholds)
    ELSE deepcopy(tree)

\* ---------------------------------------------------------------- report.py
\* FilterReportEntry: the path "blocks[0].c[1][2]" is the index sequence
\* <<0, 2>>; the semantic id is a text (a sequence of string atoms); message
\* and details are functions of the other fields and of the build target
Entry(semantic_id, action, reason_code, path) ==
    [semantic_id |-> semantic_id, action |-> action,
     reason_code |-> reason_code, path |-> path]

\* iter_wrappers, the path it yields with each wrapper
iter_wrapper_paths(tree) ==
    LET RECURSIVE iter_blocks(_, _, _)
        iter_blocks(block_list, i, path_prefix) ==
            IF i > Len(block_list) THEN <<>>
            ELSE (IF block_list[i].t = "Div"
                  THEN (IF is_semantic_wrapper(block_list[i])
                        THEN <<Append(path_prefix, i - 1)>> ELSE <<>>)
                       \o iter_blocks(block_list[i].c, 1, Append(path_prefix, i - 1))
                  ELSE <<>>)
                 \o iter_blocks(block_list, i + 1, path_prefix)
    IN  iter_blocks(tree.c, 1, <<>>)

\* the report filter_visibility returns with its tree: one entry per wrapper
\* below the target's level, added while iterating the wrappers
visibility_report(tree, build_target) ==
    LET target_level == get_allowed_visibility_level(build_target)
        wrappers == iter_wrappers(tree)
        paths == iter_wrapper_paths(tree)
        RECURSIVE add(_)
        add(k) ==
            IF k > Len(wrappers) THEN <<>>
            ELSE (IF visibility_order(get_visibility(wrappers[k])) < target_level
                  THEN << Entry(<<wrappers[k].id>>, "removed",
                                IF get_visibility(wrappers[k]) = "internal"
                                THEN "VIS_REMOVED_INTERNAL_ONLY"
                                ELSE "VIS_REMOVED_EXTERNAL_ONLY",
                                paths[k]) >>
                  ELSE <<>>)
                 \o add(k + 1)
    IN  add(1)

\* the report filter_policy returns: empty when the target forbids nothing,
\* else one entry per wrapper with a forbidden tag, naming the first of the
\* sorted matching tags
policy_report(tree, build_target) ==
    LET forbidden == forbidden_policies(build_target)
        wrappers == iter_wrappers(tree)
        paths == iter_wrapper_paths(tree)
        matching(k) == Range(get_policies(wrappers[k])) \cap forbidden
        \* sorted(matching)[0] over the tags of the configuration
        primary_tag(tags) ==
            CASE "draft" \in tags -> "draft"
              [] "internal-only" \in tags -> "internal-only"
              [] "verbose" \in tags -> "verbose"
              [] OTHER -> "wip"
        RECURSIVE add(_)
        add(k) ==
            IF k > Len(wrappers) THEN <<>>
            ELSE (IF matching(k) # {}
                  THEN << Entry(<<wrappers[k].id>>, "removed",
                                "POL_REMOVED_TAG:" \o primary_tag(matching(k)),
                                paths[k]) >>
                  ELSE <<>>)
                 \o add(k + 1)
    IN  IF forbidden = {} THEN <<>> ELSE add(1)

\* the report filter_metadata_strip returns: one entry per wrapper that lost
\* at least one attribute
metadata_strip_report(tree, cfg, build_target) ==
    LET strip_keys == CASE build_target = "internal" -> {}
                        [] build_target = "external" -> cfg.strip_attrs_external
                        [] OTHER -> cfg.strip_attrs_dossier
        wrappers == iter_wrappers(tree)
        paths == iter_wrapper_paths(tree)
        stripped_keys(div) ==
            ({div.kv[i][1] : i \in 1..Len(div.kv)} \cap strip_keys) \ cfg.protected_attrs
        RECURSIVE add(_)
        add(k) ==
            IF k > Len(wrappers) THEN <<>>
            ELSE (IF stripped_keys(wrappers[k]) # {}
                  THEN << Entry(<<wrappers[k].id>>, "stripped", "META_STRIP_ATTRS",
                                paths[k]) >>
                  ELSE <<>>)
                 \o add(k + 1)
    IN  IF strip_keys = {} THEN <<>> ELSE add(1)

\* the report filter_presentation returns. pdf: the entries of T1 (long code
\* blocks, found going down through Divs) and then the entries of T2 (the
\* wrappers moved, iterated on the tree T1 returned); html: the entries of T3
\* (the wrappers folded) and then the entries of T4 (long code blocks). The
\* digest in a code block's id is modelled by the text it is the digest of.
presentation_report(tree, render_target, thresholds) ==
    LET RECURSIVE code_blocks(_, _, _, _, _)
        code_blocks(block_list, i, path_prefix, action, reason_code) ==
            IF i > Len(block_list) THEN <<>>
            ELSE (IF block_list[i].t = "CodeBlock"
                  THEN (IF \/ count_codeblock_lines(block_list[i]) > thresholds.pdf_code_max_lines
                           \/ count_codeblock_chars(block_list[i]) > thresholds.pdf_code_max_chars
                        THEN << Entry(<<"codeblock-">> \o block_list[i].s, action, reason_code,
                                      Append(path_prefix, i - 1)) >>
                        ELSE <<>>)
                  ELSE IF block_list[i].t = "Div"
                  THEN code_blocks(block_list[i].c, 1, Append(path_prefix, i - 1),
                                   action, reason_code)
                  ELSE <<>>)
                 \o code_blocks(block_list, i + 1, path_prefix, action, reason_code)
        RECURSIVE additional(_, _, _, _, _)
        additional(t, k, over(_), action, reason_code) ==
            IF k > Len(iter_wrappers(t)) THEN <<>>
            ELSE (IF is_additional(iter_wrappers(t)[k]) /\ over(iter_wrappers(t)[k])
                  THEN << Entry(<<iter_wrappers(t)[k].id>>, action, reason_code,
                                iter_wrapper_paths(t)[k]) >>
                  ELSE <<>>)
                 \o additional(t, k + 1, over, action, reason_code)
        over_appendix(div) ==
            \/ estimate_div_blocks(div) > thresholds.appendix_threshold_blocks
            \/ estimate_block_chars(div) > thresholds.appendix_threshold_chars
        over_fold(div) ==
            \/ estimate_div_blocks(div) > thresholds.html_fold_threshold_blocks
            \/ estimate_block_chars(div) > thresholds.html_fold_threshold_chars
    IN  IF render_target = "pdf"
        THEN code_blocks(tree.c, 1, <<>>, "externalized", "PRES_PDF_CODEBLOCK_EXTERNALIZED")
             \o additional(transform_pdf_code_blocks(tree, thresholds), 1, over_appendix,
                           "moved_to_appendix", "PRES_PDF_MOVED_TO_APPENDIX")
        ELSE IF render_target = "html"
        THEN additional(tree, 1, over_fold, "folded", "PRES_HTML_FOLDED")
             \o code_blocks(tree.c, 1, <<>>, "folded", "PRES_HTML_CODEBLOCK_FOLDED")
        ELSE <<>>

\* ================================================================
\* Part 4: the document validator (validator/document.py) on the
\* document tree
\* ================================================================
\* walk_pandoc with a callback, on the node types of the document trees
\* (Para, Plain, BlockQuote, Div, Note, Str, Space, RawBlock, RawInline): the
\* callback gets the node, then the children are walked in order. The result
\* is the sequence of the nodes the callback gets, each with its path (the
\* child indices from the top). A content list is one level deeper than its
\* node and the items one level deeper than the list; where the depth passes
\* the limit walk_pandoc raises: the sequence holds a "TooDeep" mark there.
RECURSIVE walk_pandoc_tree(_, _, _)
walk_pandoc_tree(node, path, depth) ==
    LET too_deep == [node |-> Node("TooDeep", "", <<>>, <<>>, <<>>, <<>>), path |-> path]
        RECURSIVE each(_)
        each(i) ==
            IF i > Len(node.c) THEN <<>>
            ELSE walk_pandoc_tree(node.c[i], Append(path, i - 1), depth + 2)
                 \o each(i + 1)
    IN  IF depth > MaxWalkDepth THEN <<too_deep>>
        ELSE <<[node |-> node, path |-> path]>>
             \o (IF node.t \in {"Para", "Plain", "BlockQuote", "Div", "Note"}
                 THEN (IF depth + 1 > MaxWalkDepth THEN <<too_deep>> ELSE each(1))
                 ELSE <<>>)

\* _check_for_placeholders: the errors of one walk, in the order they are
\* raised or appended; PLACEHOLDER_PATTERN.search on the text of a Str; the
\* walk ends where the walker raises
check_for_placeholders(node, path) ==
    LET visited == walk_pandoc_tree(node, path, 0)
        search(text) ==
            \E i \in 1..(Len(text) - 2) : SubSeq(text, i, i + 2) \in PLACEHOLDERS
        RECURSIVE check_node(_)
        check_node(k) ==
            IF k > Len(visited) THEN <<>>
            ELSE IF visited[k].node.t = "TooDeep"
            THEN << [code |-> "VAL_PANDOC_TOO_DEEP", semantic_id |-> "",
                     ast_path |-> visited[k].path, hint |-> <<>>] >>
            ELSE (IF visited[k].node.t = "Str" /\ search(visited[k].node.s)
                  THEN << [code |-> "VAL_DOC_UNRESOLVED_PLACEHOLDER", semantic_id |-> "",
                           ast_path |-> visited[k].path, hint |-> <<>>] >>
                  ELSE <<>>)
                 \o check_node(k + 1)
    IN  check_node(1)

\* _check_for_raw_content: the errors of one walk
check_for_raw_content(node, path) ==
    LET visited == walk_pandoc_tree(node, path, 0)
        RECURSIVE check_node(_)
        check_node(k) ==
            IF k > Len(visited) THEN <<>>
            ELSE IF visited[k].node.t = "TooDeep"
            THEN << [code |-> "VAL_PANDOC_TOO_DEEP", semantic_id |-> "",
                     ast_path |-> visited[k].path, hint |-> <<>>] >>
            ELSE (IF visited[k].node.t \in {"RawInline", "RawBlock"}
                  THEN << [code |-> IF visited[k].node.t = "RawBlock"
                                    THEN "VAL_DOC_RAWBLOCK_FORBIDDEN"
                                    ELSE "VAL_DOC_RAWINLINE_FORBIDDEN",
                           semantic_id |-> "",
                           ast_path |-> visited[k].path, hint |-> <<>>] >>
                  ELSE <<>>)
                 \o check_node(k + 1)
    IN  check_node(1)

\* validate_resolved_document with every check switched on (the defaults):
\* [raised, result]. The loop goes over the top-level blocks; with fail_fast
\* the first error found is raised, without it every error found is appended
\* and valid is cleared with each; an error the walker raises leaves the call
\* in both modes. A tree whose "blocks" is not a list is a node that is not a
\* "Doc".
validate_resolved_document(tree, cfg, failfast) ==
    LET \* _validate_wrapper_div for the top-level Div at `path`: the errors in the
        \* order they are raised or appended, seen_ids after the call, and whether
        \* the Div was counted as a wrapper. A Div without identifier is left at once.
        validate_wrapper_div(div, path, cfg_, seen_ids) ==
            LET semantic_id == div.id
                role == AttrGet(div.kv, "role", "")
                kind == AttrGet(div.kv, "kind", "")
                visibility == AttrGet(div.kv, "visibility", "internal")
                error(code, hint) ==
                    [code |-> code, semantic_id |-> semantic_id, ast_path |-> path, hint |-> hint]
                duplicate ==
                    IF semantic_id \in DOMAIN seen_ids
                    THEN <<error("VAL_DOC_DUPLICATE_ID", seen_ids[semantic_id])>> ELSE <<>>
                missing_kind ==
                    IF role = "computed" /\ kind = ""
                    THEN <<error("VAL_DOC_MISSING_KIND", <<>>)>> ELSE <<>>
                \* _check_visibility_policy
                level(name) == CASE name = "external" -> 1 [] name = "dossier" -> 2 [] OTHER -> 0
                visibility_violation ==
                    IF level(visibility) < level(cfg_.target)
                    THEN <<error("VAL_DOC_VISIBILITY_VIOLATION", <<>>)>> ELSE <<>>
                RECURSIVE wrapper_content(_)
                wrapper_content(j) ==
                    IF j > Len(div.c) THEN <<>>
                    ELSE check_for_placeholders(div.c[j], Append(path, j - 1))
                         \o (IF ~cfg_.allow_raw_pandoc
                             THEN check_for_raw_content(div.c[j], Append(path, j - 1)) ELSE <<>>)
                         \o wrapper_content(j + 1)
            IN  IF semantic_id = ""
                THEN [errors |-> <<>>, seen_ids |-> seen_ids, wrapper |-> FALSE]
                ELSE [errors |-> duplicate \o missing_kind \o visibility_violation
                                 \o wrapper_content(1),
                      seen_ids |-> [id \in DOMAIN seen_ids \cup {semantic_id} |->
                                       IF id \in DOMAIN seen_ids THEN seen_ids[id] ELSE path],
                      wrapper |-> TRUE]
    IN
    LET none == [code |-> "", semantic_id |-> "", ast_path |-> <<>>, hint |-> <<>>]
        fresh == [valid |-> TRUE, errors |-> <<>>, semantic_ids |-> {},
                  wrapper_count |-> 0, raw_content_found |-> FALSE]
        RECURSIVE blocks_from(_, _, _)
        blocks_from(i, result, seen_ids) ==
            IF i > Len(tree.c) THEN result
            ELSE IF tree.c[i].t = "Div"
            THEN LET r == validate_wrapper_div(tree.c[i], <<i - 1>>, cfg, seen_ids)
                 IN  blocks_from(i + 1,
                         [result EXCEPT
                             !.errors = @ \o r.errors,
                             !.wrapper_count = IF r.wrapper THEN @ + 1 ELSE @,
                             !.semantic_ids = IF r.wrapper THEN @ \cup {tree.c[i].id} ELSE @],
                         r.seen_ids)
            ELSE blocks_from(i + 1,
                     [result EXCEPT
                         !.errors = @ \o check_for_placeholders(tree.c[i], <<i - 1>>)
                                      \o (IF ~cfg.allow_raw_pandoc
                                          THEN check_for_raw_content(tree.c[i], <<i - 1>>)
                                          ELSE <<>>)],
                     seen_ids)
        found == IF tree.t # "Doc"
                 THEN [fresh EXCEPT !.errors = <<[none EXCEPT !.code = "VAL_DOC_NO_BLOCKS"]>>]
                 ELSE blocks_from(1, fresh, <<>>)
        walker_raised ==
            {k \in 1..Len(found.errors) : found.errors[k].code = "VAL_PANDOC_TOO_DEEP"}
    IN  IF failfast /\ found.errors # <<>>
        THEN [raised |-> found.errors[1], result |-> fresh]
        ELSE IF walker_raised # {}
        THEN [raised |-> found.errors[CHOOSE k \in walker_raised :
                                         \A j \in walker_raised : k <= j],
              result |-> fresh]
        ELSE [raised |-> none,
              result |-> [found EXCEPT
                  !.valid = (found.errors = <<>>),
                  !.raw_content_found =
                      \E k \in 1..Len(found.errors) :
                          found.errors[k].code \in {"VAL_DOC_RAWBLOCK_FORBIDDEN",
                                                    "VAL_DOC_RAWINLINE_FORBIDDEN"}]]

\* ==== idle values of the variables a specification does not use ====
\* all unit-level variables but those of the specification `active`
UnitIdle(active) ==
    /\ active # "payload" =>
          /\ spayload = <<>> /\ scaller = "none" /\ strict_keys = TRUE
          /\ sconfig = [target |-> "internal", strict |-> TRUE, allow_raw_pandoc |-> FALSE,
                        limits |-> DefaultLimits]
          /\ spc = "off" /\ sresult = ""
    /\ active # "context" => (contexts = <<>> /\ bcerr = <<>>)
    /\ active # "figure" =>
          /\ fig_entry = <<>> /\ fig_files = <<>> /\ fig_pc = "off" /\ fig_ret = <<>>
          /\ fig_config = [target |-> "internal", strict |-> TRUE, allow_raw_pandoc |-> FALSE]
    /\ active # "norm" =>
          /\ norm_ast = NoTree /\ norm_registry = <<>> /\ norm_pc = "off"
          /\ norm_out = <<>> /\ norm_plan = <<>>
DocumentIdle ==
    /\ doc = NoTree /\ dpc = "off" /\ fail_fast = TRUE
    /\ dconfig = [target |-> "internal", allow_raw_pandoc |-> FALSE]
    /\ dresult = <<>> /\ derr = <<>>
FilterIdle ==
    /\ ftree = NoTree /\ ftree0 = NoTree /\ cur = NoTree
    /\ fctx = [build_target |-> "internal", render_target |-> "pdf"]
    /\ target2 = "internal" /\ fmode = "off" /\ fpc = "off"
    /\ freport = <<>> /\ stage_in = NoTree /\ stage_report = <<>>
    /\ fconfig = <<>>
ResolveIdle ==
    /\ ast = NoTree /\ input0 = NoTree /\ registry = <<>> /\ disk = <<>>
    /\ config = [target |-> "internal", strict |-> TRUE, allow_raw_pandoc |-> FALSE]
    /\ plan = <<>> /\ rpc = "off" /\ ri = 0 /\ work = NoTree /\ ret = NoTree /\ err = NoErr

InitWalk ==
    LET \* a one-column table with the generated content placed in one of its slots
        Payloads ==
            { TableOf(CaptionOf(JNull, <<>>), 1, <<>>, <<>>, <<OneCellRow(<<b>>)>>, <<>>) : b \in Blocks(MaxNest) }
            \cup { TableOf(CaptionOf(JNull, <<>>), 1, <<OneCellRow(<<b>>)>>, <<>>, <<>>, <<>>) : b \in Blocks(MaxNest - 1) }
            \cup { TableOf(CaptionOf(JNull, <<>>), 1, <<>>, <<OneCellRow(<<b>>)>>, <<>>, <<>>) : b \in Blocks(MaxNest - 1) }
            \cup { TableOf(CaptionOf(JNull, <<>>), 1, <<>>, <<>>, <<>>, <<OneCellRow(<<b>>)>>) : b \in Blocks(MaxNest - 1) }
            \cup { TableOf(CaptionOf(JNull, <<b>>), 1, <<>>, <<>>, <<>>, <<>>) : b \in Blocks(MaxNest - 1) }
            \cup { TableOf(CaptionOf(JList(<<x>>), <<>>), 1, <<>>, <<>>, <<>>, <<>>) : x \in Inlines(MaxNest - 1) }
            \cup
            \* tables of one to three columns with one row of one or two cells in the
            \* head, among the intermediate head rows or the rows of the body, or in
            \* the foot; the spans are integers, a JSON true, or a string
            LET JTrue == [JInt(1) EXCEPT !.p = "bool"]
                Cells == { CellOf(rowspan, colspan, <<ParaOf(StrN)>>) :
                             rowspan \in {JInt(0), JInt(1), JTrue},
                             colspan \in {JInt(0), JInt(1), JInt(2), JTrue, JStr} }
                Rows == { RowOf(<<x>>) : x \in Cells } \cup { RowOf(<<x, y>>) : x \in Cells, y \in Cells }
            IN  UNION { { TableOf(CaptionOf(JNull, <<>>), n, <<r>>, <<>>, <<>>, <<>>),
                          TableOf(CaptionOf(JNull, <<>>), n, <<>>, <<r>>, <<>>, <<>>),
                          TableOf(CaptionOf(JNull, <<>>), n, <<>>, <<>>, <<r>>, <<>>),
                          TableOf(CaptionOf(JNull, <<>>), n, <<>>, <<>>, <<>>, <<r>>) } :
                        <<n, r>> \in (1..MaxCols) \X Rows }
    IN
    /\ payload \in Payloads
    /\ allow_raw_pandoc \in BOOLEAN
    /\ vpc = "loaded"
    /\ vresult = "none"
    /\ ResolveIdle /\ FilterIdle /\ DocumentIdle /\ UnitIdle("")

\* _resolve_item's call validate_table_pandoc_v1(payload, entry.id, config)
ValidateTablePandoc ==
    LET ValidatorOpts == [allow_raw |-> allow_raw_pandoc, allow_nested_tables |-> FALSE,
                          allow_figures_in_cells |-> FALSE, allow_images_in_cells |-> TRUE]
    IN
    /\ vpc = "loaded"
    /\ vresult' = validate_table_pandoc_v1(payload, ValidatorOpts, DefaultLimits, TRUE)
    /\ vpc' = "validated"
    /\ UNCHANGED <<payload, allow_raw_pandoc>>
    /\ UNCHANGED <<resolveVars, filterVars, docVars, unitVars>>


SpecWalk == InitWalk /\ [][ValidateTablePandoc]_vars

\* C1: with allow_raw_pandoc = false every payload holding a RawInline or
\* RawBlock node, wherever it is placed, is rejected with a ValidationError.
C1_RawAlwaysRejected ==
    (vpc = "validated" /\ ~allow_raw_pandoc /\ ContainsRaw(payload)) => vresult # OK

\* ------------------------------------------------------------- resolve()
\* resolve(), first statement: plan = build_plan(ast, registry, config)
ResolvePlan ==
    /\ rpc = "start"
    /\ LET p == build_plan(ast, registry, config)
       IN  IF p.err.kind # "none"
           THEN /\ err' = p.err
                /\ rpc' = "raised"
                /\ plan' = plan
           ELSE /\ plan' = p.items
                /\ rpc' = "planned"
                /\ err' = err
    /\ UNCHANGED <<ast, input0, registry, disk, config, ri, work, ret>>
    /\ UNCHANGED <<walkVars, filterVars, docVars, unitVars>>

\* apply_plan: result = copy.deepcopy(ast)
ApplyCopy ==
    /\ rpc = "planned"
    /\ work' = deepcopy(ast)
    /\ ri' = 1
    /\ rpc' = "applying"
    /\ UNCHANGED <<ast, input0, registry, disk, config, plan, ret, err>>
    /\ UNCHANGED <<walkVars, filterVars, docVars, unitVars>>

\* apply_plan: one iteration of `for item in plan`; the splice is made in
\* place on the objects of result, and the caller's reference ast shows
\* whatever objects it shares with result
ApplyItemWith(r) ==
    /\ rpc = "applying"
    /\ ri <= Len(plan)
    /\ IF r.err.kind # "none"
       THEN /\ err' = r.err
            /\ rpc' = "raised"
            /\ UNCHANGED <<work, ri, ast>>
       ELSE /\ work' = SpliceItem(work, plan[ri], r.block)
            /\ ast' = Seen(ast, work')
            /\ ri' = ri + 1
            /\ UNCHANGED <<err, rpc>>
    /\ UNCHANGED <<input0, registry, disk, config, plan, ret>>
    /\ UNCHANGED <<walkVars, filterVars, docVars, unitVars>>
ApplyItem == ApplyItemWith(resolve_item(plan[ri], disk, config))

\* apply_plan: return result
ApplyReturn ==
    /\ rpc = "applying"
    /\ ri > Len(plan)
    /\ ret' = work
    /\ rpc' = "returned"
    /\ UNCHANGED <<ast, input0, registry, disk, config, plan, ri, work, err>>
    /\ UNCHANGED <<walkVars, filterVars, docVars, unitVars>>

ResolveStart(docs, regs, files, cfgs) ==
    /\ ast \in docs /\ input0 = ast
    /\ registry \in regs /\ disk \in files /\ config \in cfgs
    /\ plan = <<>> /\ rpc = "start" /\ ri = 0
    /\ work = NoTree /\ ret = NoTree /\ err = NoErr

\* the planner on documents of up to MaxPlanBlocks top-level blocks
MaxPlanBlocks == 2
InitPlan ==
    LET \* computed wrappers with no, one or two placeholders, a wrapper without id,
        \* plain text, and a wrapper that is not computed
        PlanBlocks ==
            LET PlanContents == { <<>>, <<PH("METRIC")>>, <<TextPara, PHSplit("TABLE")>>,
                                  <<PH("METRIC"), PH("TABLE")>>, <<TextPara>> }
            IN  { ComputedDiv(id, k, c) :
                    id \in Ids, k \in {"metric", "table"}, c \in PlanContents }
                \cup { ComputedDiv("", "metric", <<>>), TextPara,
                       DivNode("c", <<>>, << <<"role", "prose">> >>, <<PH("METRIC")>>) }
    IN
    /\ ResolveStart(DocsOf(PlanBlocks, MaxPlanBlocks), Registries,
                    {[i \in Ids |-> "M_ok"]}, Configs)
    /\ WalkIdle /\ FilterIdle /\ DocumentIdle /\ UnitIdle("")
SpecPlan == InitPlan /\ [][ResolvePlan]_vars

\* the whole of resolve() on documents of up to MaxResolveBlocks blocks
MaxResolveBlocks == 2
InitResolve ==
    LET ResolveBlocks ==
            { ComputedDiv("a", "metric", <<PH("METRIC")>>),
              ComputedDiv("a", "table", <<TextPara, PHSplit("TABLE")>>),
              ComputedDiv("b", "metric", <<TextPara, PH("METRIC")>>),
              ComputedDiv("b", "metric", <<>>),
              TextPara }
    IN
    LET \* the file behind each uri: its bytes, or "missing"
        Disks == { [i \in Ids |-> IF i = "a" THEN fa ELSE fb] :
                     fa \in {"M_ok", "M_alt", "M_bool", "T_ok", "T_raw", "junk", "missing"},
                     fb \in {"M_ok", "M_alt", "missing"} }
    IN
    /\ ResolveStart(DocsOf(ResolveBlocks, MaxResolveBlocks), Registries, Disks, Configs)
    /\ WalkIdle /\ FilterIdle /\ DocumentIdle /\ UnitIdle("")
NextResolve == ResolvePlan \/ ApplyCopy \/ ApplyItem \/ ApplyReturn
SpecResolve == InitResolve /\ [][NextResolve]_vars


\* ------------------------------------------------------------ filters/api.py
\* FilterConfig: small presentation thresholds, default appendix options,
\* default strip sets and protected keys
FilterConfig ==
    LET strip_attrs(target) ==
            CASE target = "internal" -> {}
              [] target = "external" ->
                   {"producer", "run_id", "dataset_fingerprint", "config_fingerprint",
                    "artifact_uri", "sha256", "source", "schema"}
              [] OTHER ->
                   {"producer", "run_id", "dataset_fingerprint", "config_fingerprint",
                    "artifact_uri", "sha256", "source", "schema", "lock", "bind-to"}
    IN
    [strip_attrs_external |-> strip_attrs("external"),
     strip_attrs_dossier |-> strip_attrs("dossier"),
     protected_attrs |-> protected_attrs,
     thresholds |->
         [pdf_code_max_lines |-> 1, pdf_code_max_chars |-> 3000,
          pdf_code_preview_lines |-> 1,
          appendix_threshold_blocks |-> 1, appendix_threshold_chars |-> 2000,
          html_fold_threshold_blocks |-> 1, html_fold_threshold_chars |-> 2000],
     appendix |-> [title |-> "Appendix", anchor_prefix |-> "appendix"]]

\* a stage returns `result` and `report`: the caller rebinds its tree variable
\* to the result; what the stage changed in place shows through every
\* reference to those objects; apply_filters merges the report into
\* combined_report
StageReturn(result, report, next) ==
    /\ cur' = result
    /\ ftree' = Seen(ftree, result)
    /\ fpc' = next
    /\ stage_in' = cur
    /\ stage_report' = report
    /\ freport' = IF fmode = "pipeline" THEN freport \o report ELSE report
    /\ UNCHANGED <<ftree0, fctx, target2, fmode, fconfig>>
    /\ UNCHANGED <<walkVars, resolveVars, docVars, unitVars>>

\* filter_visibility, called on its own, as step 1 of apply_filters, or as the
\* first of two visibility passes
FilterVisibility ==
    /\ fpc = "visibility"
    /\ StageReturn(filter_visibility(cur, fctx.build_target),
                   visibility_report(cur, fctx.build_target),
                   CASE fmode = "pipeline" -> "policy"
                     [] fmode = "narrow" -> "visibility2"
                     [] OTHER -> "done")
\* the second visibility pass, for the stricter target
FilterVisibilityAgain ==
    /\ fpc = "visibility2"
    /\ StageReturn(filter_visibility(cur, target2),
                   visibility_report(cur, target2), "done")
FilterPolicy ==
    /\ fpc = "policy"
    /\ StageReturn(filter_policy(cur, fctx.build_target),
                   policy_report(cur, fctx.build_target),
                   IF fmode = "pipeline" THEN "metadata_strip" ELSE "done")
FilterMetadataStrip ==
    /\ fpc = "metadata_strip"
    /\ StageReturn(filter_metadata_strip(cur, fconfig, fctx.build_target),
                   metadata_strip_report(cur, fconfig, fctx.build_target),
                   IF fmode = "pipeline" THEN "presentation" ELSE "done")
FilterPresentation ==
    /\ fpc = "presentation"
    /\ StageReturn(filter_presentation(cur, fctx.render_target, fconfig.thresholds,
                                       fconfig.appendix),
                   presentation_report(cur, fctx.render_target, fconfig.thresholds),
                   "done")

MaxFilterBlocks == 2
FirstPc(mode) == IF mode \in {"pipeline", "narrow"} THEN "visibility" ELSE mode
InitFilter ==
    LET \* generated filter input: wrappers of every visibility, with policies, with
        \* attributes to strip, nested in each other, in a plain Div and in a
        \* BlockQuote; long code; an Appendix header
        FilterInputBlocks ==
            LET Wrapper(id, visibility, classes, more, blocks) ==
                    DivNode(id, classes,
                            (IF visibility = "" THEN <<>> ELSE << <<"visibility", visibility>> >>)
                            \o more,
                            blocks)
                Plain(id, visibility) == Wrapper(id, visibility, <<>>, <<>>, <<TextPara>>)
                LongCode == CodeBlockNode(<<"x = 1", "y = 2">>)
            IN  { Plain("a", v) : v \in {"", "internal", "external", "dossier", "secret"} }
                \cup { Plain("b", "internal"),
                       Wrapper("b", "dossier", <<>>, << <<"presentation", "additional">> >>,
                               <<TextPara, TextPara>>),
                       Wrapper("a", "external", <<>>, << <<"policies", "draft">> >>, <<TextPara>>),
                       Wrapper("a", "dossier", <<"additional">>, <<>>, <<TextPara, LongCode>>),
                       Wrapper("a", "dossier", <<>>,
                               << <<"producer", "ci">>, <<"kind", "metric">>, <<"producer", "ci2">> >>,
                               <<TextPara>>),
                       Wrapper("P", "internal", <<>>, <<>>, <<Plain("a", "external")>>),
                       Wrapper("P", "dossier", <<>>, <<>>, <<Plain("a", "internal")>>),
                       Wrapper("P", "external", <<>>, <<>>, <<Plain("b", "dossier")>>),
                       DivNode("", <<>>, <<>>, <<Plain("a", "internal")>>),
                       Node("BlockQuote", "", <<>>, <<>>, <<Plain("a", "internal")>>, <<>>),
                       Node("BlockQuote", "", <<>>, <<>>,
                            << Wrapper("b", "internal", <<>>, << <<"policies", "draft">> >>,
                                       <<TextPara>>) >>, <<>>),
                       LongCode, TextPara, make_header(1, <<"Appendix">>, "appendix-section") }
    IN
    LET \* the default configuration, and one whose strip sets also name protected keys
        FilterConfigs ==
            { FilterConfig,
              [FilterConfig EXCEPT !.strip_attrs_external = @ \cup {"kind", "policies"},
                                   !.strip_attrs_dossier = @ \cup {"kind", "visibility"}] }
    IN
    /\ ftree \in DocsOf(FilterInputBlocks, MaxFilterBlocks)
    /\ ftree0 = ftree /\ cur = ftree
    /\ freport = <<>> /\ stage_in = ftree /\ stage_report = <<>>
    /\ fmode \in {"visibility", "policy", "metadata_strip", "presentation", "pipeline", "narrow"}
    /\ fpc = FirstPc(fmode)
    /\ fconfig \in IF fmode \in {"metadata_strip", "pipeline"}
                    THEN FilterConfigs ELSE {FilterConfig}
    /\ fctx \in [build_target : {"internal", "external", "dossier"},
                 render_target : IF fmode \in {"presentation", "pipeline"}
                                 THEN {"pdf", "html", "md"} ELSE {"pdf"}]
    /\ target2 \in IF fmode = "narrow"
                   THEN { t \in {"internal", "external", "dossier"} :
                            visibility_order(t) > visibility_order(fctx.build_target) }
                   ELSE {fctx.build_target}
    /\ WalkIdle /\ ResolveIdle /\ DocumentIdle /\ UnitIdle("")
NextFilter ==
    \/ FilterVisibility \/ FilterVisibilityAgain \/ FilterPolicy
    \/ FilterMetadataStrip \/ FilterPresentation
SpecFilter == InitFilter /\ [][NextFilter]_vars

\* resolve() and the filter stages side by side
SpecStages == (InitResolve \/ InitFilter) /\ [][NextResolve \/ NextFilter]_vars

\* ------------------------------------------------- validator/document.py

MaxDocumentBlocks == 2
InitDocument ==
    LET \* generated resolved trees: text, a placeholder left in a Str, raw nodes,
        \* wrappers (plain, computed without kind, internal), each of them at top
        \* level, inside a wrapper, inside a Div without identifier, inside a nested
        \* wrapper, inside a BlockQuote and a Note; and a tree whose "blocks" is not
        \* a list
        DocumentInputBlocks ==
            LET Left == ParaNode(<<StrNode(<<"see ">> \o Token("METRIC"))>>)
                RawBlockNode == Node("RawBlock", "", <<>>, <<>>, <<>>, <<"<b>">>)
                RawPara == ParaNode(<<Node("RawInline", "", <<>>, <<>>, <<>>, <<"<b>">>)>>)
                NotePara(blocks) == ParaNode(<<Node("Note", "", <<>>, <<>>, blocks, <<>>)>>)
                Wrapper(id, visibility, blocks) ==
                    DivNode(id, <<>>, << <<"visibility", visibility>> >>, blocks)
            IN  { TextPara, Left, RawBlockNode, RawPara,
                  Wrapper("w", "dossier", <<TextPara>>),
                  Wrapper("w", "internal", <<Left>>),
                  Wrapper("v", "dossier", <<TextPara, RawPara>>),
                  DivNode("v", <<>>, << <<"role", "computed">>, <<"visibility", "dossier">> >>,
                          <<TextPara>>),
                  DivNode("", <<>>, <<>>, <<Left>>),
                  DivNode("", <<>>, <<>>, <<RawBlockNode>>),
                  Wrapper("p", "dossier", <<Wrapper("w", "dossier", <<TextPara>>)>>),
                  Wrapper("p", "dossier", <<Wrapper("n", "dossier", <<Left>>),
                                            Wrapper("n", "dossier", <<TextPara>>)>>),
                  Node("BlockQuote", "", <<>>, <<>>, <<NotePara(<<Left>>), RawBlockNode>>, <<>>),
                  PHSplit("TABLE") }
    IN
    /\ doc \in DocsOf(DocumentInputBlocks, MaxDocumentBlocks)
                \cup { Node("BlocksNotAList", "", <<>>, <<>>, <<>>, <<>>) }
    /\ dconfig \in [target : {"internal", "external", "dossier"},
                    allow_raw_pandoc : BOOLEAN]
    /\ fail_fast \in BOOLEAN
    /\ dpc = "start"
    /\ dresult = <<>> /\ derr = <<>>
    /\ WalkIdle /\ ResolveIdle /\ FilterIdle /\ UnitIdle("")
\* the call validate_resolved_document(doc, dconfig, fail_fast=fail_fast)
ValidateDocument ==
    /\ dpc = "start"
    /\ \E r \in {validate_resolved_document(doc, dconfig, fail_fast)} :
          /\ dpc' = IF r.raised.code # "" THEN "raised" ELSE "returned"
          /\ derr' = IF r.raised.code # "" THEN r.raised ELSE <<>>
          /\ dresult' = IF r.raised.code # "" THEN <<>> ELSE r.result
    /\ UNCHANGED <<doc, dconfig, fail_fast>>
    /\ UNCHANGED <<walkVars, resolveVars, filterVars, unitVars>>
SpecDocument == InitDocument /\ [][ValidateDocument]_vars

\* ------------------------------------------------- properties of the planner
\* the number of placeholder-only paragraphs among the immediate children
Arity(block) == Cardinality({i \in 1..Len(block.c) : is_placeholder_block(block.c[i]) # ""})
IsWrapper(block) == block.t = "Div" /\ is_computed_wrapper(block) /\ block.id # ""
\* no block before position k makes build_plan raise
NoEarlierRaise(k) ==
    \A j \in 1..(k - 1) : PlanBlock(ast.c[j], j - 1, registry, config).err.kind = "none"
\* what build_plan returned or raised
PlanOutcome == IF rpc = "raised" THEN [err |-> err, items |-> <<>>]
               ELSE [err |-> NoErr, items |-> plan]

\* C3: a top-level computed wrapper with zero or with two or more
\* placeholder-only paragraphs makes build_plan raise, and when the planner
\* gets to it the error is a PlaceholderError naming it, whatever its kind,
\* the registry and the strict flag.
C3_ArityAlwaysFatal ==
    rpc # "start" =>
        \A k \in 1..Len(ast.c) :
            (IsWrapper(ast.c[k]) /\ Arity(ast.c[k]) # 1) =>
                /\ rpc = "raised"
                /\ NoEarlierRaise(k) =>
                      (err.kind = "PlaceholderError" /\ err.semantic_id = ast.c[k].id)
C3_Witness ==
    /\ rpc = "raised" /\ err.kind = "PlaceholderError" /\ ~config.strict
    /\ config.target = "internal"
    /\ \E k \in 1..Len(ast.c) :
          /\ IsWrapper(ast.c[k]) /\ Arity(ast.c[k]) = 2 /\ NoEarlierRaise(k)
          /\ ast.c[k].id \notin DOMAIN registry

\* C4: a computed wrapper whose kind attribute differs from the
\* artifact_type of the registry entry of its id makes build_plan raise
\* KindMismatchError, strict or not.
C4_KindAttrMismatchFatal ==
    rpc # "start" =>
        \A k \in 1..Len(ast.c) :
            (/\ IsWrapper(ast.c[k]) /\ Arity(ast.c[k]) = 1
             /\ ast.c[k].id \in DOMAIN registry
             /\ AttrGet(ast.c[k].kv, "kind", "") # registry[ast.c[k].id].artifact_type
             /\ NoEarlierRaise(k))
            => (rpc = "raised" /\ err.kind = "KindMismatchError"
                /\ err.semantic_id = ast.c[k].id)

\* the document without its k-th block, and a plan of that document with the
\* positions of the blocks after k counted as in the full document
Without(tree, k) ==
    [tree EXCEPT !.c = SubSeq(tree.c, 1, k - 1) \o SubSeq(tree.c, k + 1, Len(tree.c))]
Reindexed(items, k) ==
    [n \in 1..Len(items) |->
        IF items[n].wrapper_index >= k - 1
        THEN [items[n] EXCEPT !.wrapper_index = @ + 1] ELSE items[n]]
UnknownWrapper(block) ==
    IsWrapper(block) /\ Arity(block) = 1 /\ block.id \notin DOMAIN registry

\* C5: a computed wrapper whose id the registry does not have is fatal
\* (RegistryError) with strict = true; with strict = false and target internal
\* it is skipped and the outcome of planning is the one of the document
\* without that wrapper.
C5_UnknownIdStrictOrDropped ==
    rpc # "start" =>
        \A k \in 1..Len(ast.c) :
            UnknownWrapper(ast.c[k]) =>
                /\ (config.strict /\ NoEarlierRaise(k)) =>
                      (rpc = "raised" /\ err.kind = "RegistryError"
                       /\ err.semantic_id = ast.c[k].id)
                /\ (~config.strict /\ config.target = "internal") =>
                      LET other == build_plan(Without(ast, k), registry, config)
                      IN  /\ PlanOutcome.err = other.err
                          /\ PlanOutcome.items = Reindexed(other.items, k)
C5_Witness ==
    /\ rpc = "planned" /\ ~config.strict /\ config.target = "internal"
    /\ Len(plan) >= 1
    /\ \E k \in 1..Len(ast.c) :
          /\ UnknownWrapper(ast.c[k])
          /\ \E n \in 1..Len(plan) : plan[n].wrapper_index > k - 1

\* ------------------------------------------------ properties of resolve()
Finished == rpc \in {"raised", "returned"}
Tampered(item) ==
    /\ disk[item.entry.uri] # "missing"
    /\ compute_sha256(disk[item.entry.uri]) # item.entry.sha256
\* the item loads, verifies, validates and emits
Sound(item) == resolve_item(item, disk, [config EXCEPT !.strict = TRUE]).err.kind = "none"

\* C2: when the first plan item that does not resolve cleanly is one whose
\* payload bytes do not hash to the registry digest, resolve() raises
\* HashMismatchError with expected = registry digest and actual = digest of
\* the bytes on disk, and returns no tree, strict or not.
C2_HashMismatchWhateverStrict ==
    Finished =>
        \A k \in 1..Len(plan) :
            (Tampered(plan[k]) /\ \A j \in 1..(k - 1) : Sound(plan[j])) =>
                /\ rpc = "raised"
                /\ err.kind = "HashMismatchError"
                /\ err.expected = plan[k].entry.sha256
                /\ err.actual = compute_sha256(disk[plan[k].entry.uri])
                /\ ret = NoTree

ResolutionErrorKinds == {"RegistryError", "PlaceholderError", "PayloadError",
                         "ValidationError", "HashMismatchError", "KindMismatchError"}

\* C6: when a plan item fails, resolve() raises one of the typed resolution
\* errors, returns no tree, and the caller's tree is as it was.
C6_NoPartialSuccess ==
    (rpc = "raised" /\ ri >= 1) =>
        /\ err.kind \in ResolutionErrorKinds
        /\ ret = NoTree
        /\ ast = input0

\* C7: for target external or dossier a run with strict = false ends as the
\* same run with strict = true ends.
C7_StrictTargetsNotDowngraded ==
    (Finished /\ is_strict_target(config) /\ ~config.strict) =>
        LET r == resolve(input0, registry, disk, [config EXCEPT !.strict = TRUE])
        IN  /\ err = r.err
            /\ Val(ret) = Val(r.tree)

\* ---------------------------------------------- properties of the stages
\* a filter stage has returned to its caller
StageReturned == fpc # FirstPc(fmode)
\* filter_visibility for fctx.build_target has just returned cur
VisibilityReturned ==
    \/ fmode = "visibility" /\ fpc = "done"
    \/ fmode = "narrow" /\ fpc = "visibility2"
\* every wrapper of a tree, wherever it sits
RECURSIVE AllWrappers(_)
AllWrappers(n) ==
    (IF is_semantic_wrapper(n) THEN {n} ELSE {})
    \cup UNION {AllWrappers(n.c[i]) : i \in 1..Len(n.c)}
UniqueIds(n) == \A w1, w2 \in AllWrappers(n) : w1.id = w2.id => w1.oid = w2.oid

\* C8: when resolve() or a filter stage (alone or as a step of apply_filters)
\* has returned, the caller's input tree is what it was before the call and
\* the returned tree shares no object with it.
C8_StagesCopyTheirInput ==
    /\ rpc = "returned" => (ast = input0 /\ Oids(ret) \cap Oids(input0) = {})
    /\ StageReturned => (ftree = ftree0 /\ Oids(cur) \cap Oids(ftree0) = {})
C8_Witness ==
    /\ fmode = "pipeline" /\ fpc = "done" /\ fctx.render_target = "pdf"
    /\ Val(cur) # Val(ftree0)
    /\ \E w \in AllWrappers(ftree0) : ToMove(w, FilterConfig.thresholds)

\* C9: after filter_visibility for target T every wrapper left anywhere in the
\* returned tree has a visibility level of at least T's level (missing or
\* unrecognised visibility counting as internal).
C9_NoWrapperBelowTarget ==
    VisibilityReturned =>
        \A w \in AllWrappers(cur) :
            visibility_order(get_visibility(w)) >= get_allowed_visibility_level(fctx.build_target)

\* C10 as stated: for every tree, filtering for T and then for a stricter T'
\* gives the tree that filtering once for T' gives.
C10_NarrowingAnyTree ==
    (fmode = "narrow" /\ fpc = "done") =>
        Val(cur) = Val(filter_visibility(ftree0, target2))
\* C10: for every tree whose wrapper identifiers are unique, filtering for T
\* and then for a stricter T' gives the tree that filtering once for T' gives.
C10_NarrowingUniqueIds ==
    (fmode = "narrow" /\ fpc = "done" /\ UniqueIds(ftree0)) =>
        Val(cur) = Val(filter_visibility(ftree0, target2))
C10_Witness ==
    /\ fmode = "narrow" /\ fpc = "done" /\ UniqueIds(ftree0)
    /\ Val(filter_visibility(ftree0, fctx.build_target)) # Val(ftree0)
    /\ Val(cur) # Val(filter_visibility(ftree0, fctx.build_target))
    /\ Len(cur.c) > 0

\* ---------------------------------------------- properties of the reports
\* filter_visibility or filter_policy has just returned cur and stage_report
\* for the input stage_in
RemovalStageReturned ==
    \/ fmode = "pipeline" /\ fpc \in {"policy", "metadata_strip"}
    \/ fmode = "narrow" /\ fpc \in {"visibility2", "done"}
    \/ fmode \in {"visibility", "policy"} /\ fpc = "done"
\* the wrapper w of the stage's input has no copy in the stage's output
Absent(w) == \A w2 \in AllWrappers(cur) : w2.oid # w.oid + OidStride

\* C11: when the visibility or the policy stage has returned, every wrapper
\* of its input (top-level or nested) that is not in its output has a
\* "removed" entry with its own semantic id in the stage's report.
C11_EveryRemovalAudited ==
    RemovalStageReturned =>
        \A w \in AllWrappers(stage_in) :
            Absent(w) =>
                \E k \in 1..Len(stage_report) :
                    /\ stage_report[k].action = "removed"
                    /\ stage_report[k].semantic_id = <<w.id>>

\* the stages of apply_filters one after the other, as trees and as reports
PipelineTrees ==
    LET t1 == filter_visibility(ftree0, fctx.build_target)
        t2 == filter_policy(t1, fctx.build_target)
        t3 == filter_metadata_strip(t2, fconfig, fctx.build_target)
    IN  <<ftree0, t1, t2, t3,
          filter_presentation(t3, fctx.render_target, FilterConfig.thresholds,
                              FilterConfig.appendix)>>
PipelineReports ==
    << visibility_report(PipelineTrees[1], fctx.build_target),
       policy_report(PipelineTrees[2], fctx.build_target),
       metadata_strip_report(PipelineTrees[3], fconfig, fctx.build_target),
       presentation_report(PipelineTrees[4], fctx.render_target, FilterConfig.thresholds) >>
\* the wrapper is below the target's level and carries a forbidden tag
BelowAndForbidden(w) ==
    /\ visibility_order(get_visibility(w)) < get_allowed_visibility_level(fctx.build_target)
    /\ Range(get_policies(w)) \cap forbidden_policies(fctx.build_target) # {}
WithId(report, id) == {k \in 1..Len(report) : report[k].semantic_id = <<id>>}

\* C12: apply_filters runs visibility, policy, metadata-strip, presentation,
\* each on the tree the stage before returned; its report is the visibility
\* entries, then the policy entries, then the metadata-strip entries, then the
\* presentation entries; each wrapper that is below the target's level and
\* carries a forbidden policy tag gives one visibility entry and no policy
\* entry.
C12_FixedOrderMergedReport ==
    (fmode = "pipeline" /\ fpc = "done") =>
        /\ Val(cur) = Val(PipelineTrees[5])
        /\ freport = PipelineReports[1] \o PipelineReports[2]
                     \o PipelineReports[3] \o PipelineReports[4]
        /\ \A w \in AllWrappers(ftree0) :
              BelowAndForbidden(w) =>
                  /\ Cardinality(WithId(PipelineReports[1], w.id))
                       = Cardinality({w2 \in AllWrappers(ftree0) :
                             /\ w2.id = w.id
                             /\ visibility_order(get_visibility(w2))
                                  < get_allowed_visibility_level(fctx.build_target)})
                  /\ WithId(PipelineReports[2], w.id) = {}

\* the stage that has just returned
LastStage ==
    CASE fmode = "pipeline" ->
           (CASE fpc = "policy" -> "visibility"
              [] fpc = "metadata_strip" -> "policy"
              [] fpc = "presentation" -> "metadata_strip"
              [] OTHER -> "presentation")
      [] fmode = "narrow" -> "visibility"
      [] OTHER -> fmode
\* the node at a path of block indices
RECURSIVE NodeAt(_, _)
NodeAt(n, path) == IF path = <<>> THEN n ELSE NodeAt(n.c[path[1] + 1], Tail(path))
\* for each entry of a stage's report, the position in the pipeline's input
\* tree (preorder) of the node the entry is about; the entries of the second
\* pdf transform carry paths of the tree the first transform returned
EntryNodes(stage, tree, report) ==
    LET Position(t, e) == NodeAt(t, e.path).oid % OidStride
        T1 == transform_pdf_code_blocks(tree, FilterConfig.thresholds)
    IN  [k \in 1..Len(report) |->
            IF stage = "presentation" /\ report[k].action = "moved_to_appendix"
            THEN Position(T1, report[k]) ELSE Position(tree, report[k])]
InDocumentOrder(positions) ==
    \A i, j \in 1..Len(positions) : i < j => positions[i] <= positions[j]

\* C13: in the report a stage returns and in the report apply_filters
\* returns, of any two entries the one about the node that comes earlier in
\* the input tree comes first; and a step only appends entries to the report
\* apply_filters holds.
C13_ReportInDocumentOrder ==
    /\ [](StageReturned =>
            InDocumentOrder(EntryNodes(LastStage, stage_in, stage_report)))
    /\ []((fmode = "pipeline" /\ fpc = "done") =>
            InDocumentOrder(
                EntryNodes("visibility", PipelineTrees[1], PipelineReports[1])
                \o EntryNodes("policy", PipelineTrees[2], PipelineReports[2])
                \o EntryNodes("metadata_strip", PipelineTrees[3], PipelineReports[3])
                \o EntryNodes("presentation", PipelineTrees[4], PipelineReports[4])))
    /\ [][fmode = "pipeline" =>
            (Len(freport') >= Len(freport)
             /\ SubSeq(freport', 1, Len(freport)) = freport)]_vars

\* ------------------------------------------ properties of the attributes
\* wrapper `out` of a stage's output is wrapper `in` of its input (trees that
\* are passed on are copies: the position in the first tree stays in the
\* object identity)
SameWrapper(in, out) == out.oid % OidStride = in.oid % OidStride
\* the pairs of an attribute list whose key is in `keys`, in their order
Pairs(kv, keys) == LET Keep(pair) == pair[1] \in keys IN SelectSeq(kv, Keep)
\* the keys configured for stripping for the run's target
StripSet ==
    CASE fctx.build_target = "internal" -> {}
      [] fctx.build_target = "external" -> fconfig.strip_attrs_external
      [] OTHER -> fconfig.strip_attrs_dossier
Protected == {"id", "role", "kind", "visibility", "policies"}
KeepsProtected(in_tree, out_tree) ==
    \A w \in AllWrappers(in_tree) : \A w2 \in AllWrappers(out_tree) :
        SameWrapper(w, w2) =>
            /\ w2.id = w.id
            /\ Pairs(w2.kv, Protected) = Pairs(w.kv, Protected)

\* C15: every wrapper that is still there when a filter stage, or the whole
\* pipeline, has returned carries the id and the role, kind, visibility and
\* policies attributes it carried in the input, with the same values, also
\* when the configured strip set names one of these keys.
C15_ProtectedAttrsKept ==
    StageReturned =>
        /\ KeepsProtected(stage_in, cur)
        /\ KeepsProtected(ftree0, cur)
C15_Witness ==
    /\ fmode \in {"metadata_strip", "pipeline"} /\ fpc = "done"
    /\ StripSet \cap Protected # {}
    /\ \E w \in AllWrappers(ftree0) : \E w2 \in AllWrappers(cur) :
          /\ SameWrapper(w, w2)
          /\ Pairs(w.kv, StripSet \cap Protected) # <<>>
          /\ Len(w2.kv) < Len(w.kv)

\* filter_metadata_strip has just returned cur for the input stage_in
MetadataStripReturned ==
    \/ fmode = "metadata_strip" /\ fpc = "done"
    \/ fmode = "pipeline" /\ fpc = "presentation"
\* C16: when filter_metadata_strip has returned, the attribute list of each
\* wrapper of the output is the one it had in the input without the pairs
\* whose key is in the target's strip set and not protected; everything else
\* in the tree is as in the input; for the internal target the output equals
\* the input.
C16_StripsExactlyConfiguredKeys ==
    MetadataStripReturned =>
        /\ \A w \in AllWrappers(stage_in) : \A w2 \in AllWrappers(cur) :
              SameWrapper(w, w2) =>
                  w2.kv = Pairs(w.kv, {w.kv[i][1] : i \in 1..Len(w.kv)}
                                        \ (StripSet \ Protected))
        /\ \A w \in AllWrappers(stage_in) : \E w2 \in AllWrappers(cur) : SameWrapper(w, w2)
        /\ fctx.build_target = "internal" => Val(cur) = Val(stage_in)

\* ------------------------------------ properties of the document validator
\* every node of a tree with its path, wherever it sits
RECURSIVE NodesOf(_, _)
NodesOf(n, path) ==
    {[node |-> n, path |-> path]}
    \cup UNION {NodesOf(n.c[i], Append(path, i - 1)) : i \in 1..Len(n.c)}
\* the text holds a placeholder token
HasToken(text) ==
    \E i \in 1..(Len(text) - 2) :
        SubSeq(text, i, i + 2) \in {Token(k) : k \in {"METRIC", "TABLE", "FIGURE"}}
\* validate_resolved_document has raised or returned
DocumentValidated == dpc \in {"raised", "returned"}
\* the call reported a violation with one of the codes at the path: listed in
\* the result without fail_fast; with fail_fast the call raised
Reported(codes, path) ==
    IF fail_fast THEN dpc = "raised"
    ELSE /\ dpc = "returned"
         /\ \E k \in 1..Len(dresult.errors) :
               /\ dresult.errors[k].code \in codes
               /\ dresult.errors[k].ast_path = path
\* the wrappers of the document that carry the id, with their paths
WrappersWithId(id) == {x \in NodesOf(doc, <<>>) : x.node.t = "Div" /\ x.node.id = id}

\* C17: when validate_resolved_document has finished on a tree in which the
\* text of some Str leaf holds a placeholder token, wherever the leaf sits, it
\* has reported an unresolved-placeholder violation for that leaf (raised,
\* with fail_fast).
C17_PlaceholderAnywhereReported ==
    DocumentValidated =>
        \A x \in NodesOf(doc, <<>>) :
            (x.node.t = "Str" /\ HasToken(x.node.s)) =>
                Reported({"VAL_DOC_UNRESOLVED_PLACEHOLDER"}, x.path)

\* C18: with allow_raw_pandoc = false, when validate_resolved_document has
\* finished on a tree that holds a RawBlock or RawInline anywhere, it has
\* reported a raw-content violation for that node (raised, with fail_fast).
C18_RawAnywhereReported ==
    (DocumentValidated /\ ~dconfig.allow_raw_pandoc) =>
        \A x \in NodesOf(doc, <<>>) :
            x.node.t \in {"RawBlock", "RawInline"} =>
                Reported({"VAL_DOC_RAWBLOCK_FORBIDDEN", "VAL_DOC_RAWINLINE_FORBIDDEN"},
                         x.path)

\* C19: when validate_resolved_document has finished on a tree in which two
\* wrappers, top-level or nested, carry the same id, it has reported a
\* duplicate-id violation (raised, with fail_fast) that names the path of the
\* duplicate and the path of the first wrapper with that id.
C19_DuplicateIdAnywhereReported ==
    DocumentValidated =>
        \A x \in NodesOf(doc, <<>>) :
            (/\ x.node.t = "Div" /\ x.node.id # ""
             /\ \E y \in WrappersWithId(x.node.id) : y.node.oid < x.node.oid)
            => /\ Reported({"VAL_DOC_DUPLICATE_ID"}, x.path)
               /\ ~fail_fast =>
                     \E k \in 1..Len(dresult.errors) :
                         /\ dresult.errors[k].code = "VAL_DOC_DUPLICATE_ID"
                         /\ dresult.errors[k].ast_path = x.path
                         /\ \E y \in WrappersWithId(x.node.id) :
                               /\ dresult.errors[k].hint = y.path
                               /\ \A z \in WrappersWithId(x.node.id) :
                                     y.node.oid <= z.node.oid

\* the violations present in the document: code and path
Violations ==
    LET nodes == NodesOf(doc, <<>>)
        wrappers == {x \in nodes : x.node.t = "Div" /\ x.node.id # ""}
        level(name) == CASE name = "external" -> 1 [] name = "dossier" -> 2 [] OTHER -> 0
    IN  { <<"VAL_DOC_UNRESOLVED_PLACEHOLDER", x.path>> :
            x \in {y \in nodes : y.node.t = "Str" /\ HasToken(y.node.s)} }
        \cup { <<"VAL_DOC_" \o (IF x.node.t = "RawBlock" THEN "RAWBLOCK" ELSE "RAWINLINE")
                 \o "_FORBIDDEN", x.path>> :
            x \in {y \in nodes : /\ y.node.t \in {"RawBlock", "RawInline"}
                                 /\ ~dconfig.allow_raw_pandoc} }
        \cup { <<"VAL_DOC_DUPLICATE_ID", x.path>> :
            x \in {y \in wrappers :
                     \E z \in WrappersWithId(y.node.id) : z.node.oid < y.node.oid} }
        \cup { <<"VAL_DOC_MISSING_KIND", x.path>> :
            x \in {y \in wrappers : /\ AttrGet(y.node.kv, "role", "") = "computed"
                                    /\ AttrGet(y.node.kv, "kind", "") = ""} }
        \cup { <<"VAL_DOC_VISIBILITY_VIOLATION", x.path>> :
            x \in {y \in wrappers :
                     level(AttrGet(y.node.kv, "visibility", "internal"))
                       < level(dconfig.target)} }
        \cup { <<"VAL_DOC_NO_BLOCKS", <<>> >> : x \in {y \in {doc} : y.t # "Doc"} }

\* C20: without fail_fast validate_resolved_document does not raise; the
\* error list of the result it returns holds every violation present in the
\* tree, among them the one the call with fail_fast raises; valid is false
\* exactly when the error list is not empty.
C20_CollectAllReportsEverything ==
    (DocumentValidated /\ ~fail_fast) =>
        /\ dpc = "returned"
        /\ dresult.valid = (dresult.errors = <<>>)
        /\ \A v \in Violations :
              \E k \in 1..Len(dresult.errors) :
                  /\ dresult.errors[k].code = v[1]
                  /\ dresult.errors[k].ast_path = v[2]
        /\ LET first == validate_resolved_document(doc, dconfig, TRUE).raised
           IN  first.code # "" =>
                   \E k \in 1..Len(dresult.errors) : dresult.errors[k] = first

\* ------------------------------- properties of the native-table validator
\* a node of one of the types anywhere in a JSON value
RECURSIVE ContainsAny(_, _)
ContainsAny(x, types) ==
    \/ (x.j = "dict" /\ x.t \in types)
    \/ \E i \in 1..Len(x.items) : ContainsAny(x.items[i], types)
    \/ \E i \in 1..Len(x.o) : ContainsAny(x.o[i], types)
\* a node of one of the types inside the block list of some Cell of the value
RECURSIVE InSomeCell(_, _)
InSomeCell(x, types) ==
    \/ /\ x.j = "dict" /\ x.t = "Cell"
       /\ IsList(GetC(x)) /\ JLen(GetC(x)) >= 5
       /\ ContainsAny(At(GetC(x), 4), types)
    \/ \E i \in 1..Len(x.items) : InSomeCell(x.items[i], types)
    \/ \E i \in 1..Len(x.o) : InSomeCell(x.o[i], types)

\* C21: with the default settings validate_table_pandoc_v1 rejects every
\* payload in which a Table or a Figure block occurs inside a table cell, at
\* any nesting depth within the cell.
C21_NoTableOrFigureInCell ==
    (vpc = "validated" /\ InSomeCell(payload, {"Table", "Figure"})) => vresult # OK

\* the rows of the head, of the bodies (intermediate head rows, then body
\* rows) and of the foot of a generated table
TableRows(table) ==
    LET content == GetC(table)
        body == At(At(content, 4), 0)
    IN  At(GetC(At(content, 3)), 1).items
        \o At(GetC(body), 2).items \o At(GetC(body), 3).items
        \o At(GetC(At(content, 5)), 1).items
\* a JSON integer >= 1
PositiveInteger(x) == x.j = "prim" /\ x.p = "int" /\ x.v >= 1
\* the column-spans of the first k cells of a row, added up
RECURSIVE ColumnOffset(_, _)
ColumnOffset(row, k) ==
    IF k = 0 THEN 0
    ELSE ColumnOffset(row, k - 1) + At(GetC(At(GetC(row), 1).items[k]), 3).v

\* C22: when validate_table_pandoc_v1 accepts a table, the row-span and the
\* column-span of every cell are positive integers and in every row of the
\* head, of each body and of the foot the running sum of the column-spans,
\* left to right, never exceeds the number of column specs.
C22_AcceptedSpansFitTheTable ==
    (vpc = "validated" /\ vresult = OK) =>
        \A i \in 1..Len(TableRows(payload)) :
            LET row == TableRows(payload)[i]
                cells == At(GetC(row), 1).items
            IN  /\ \A k \in 1..Len(cells) :
                      /\ PositiveInteger(At(GetC(cells[k]), 2))
                      /\ PositiveInteger(At(GetC(cells[k]), 3))
                /\ \A k \in 1..Len(cells) :
                      ColumnOffset(row, k) <= JLen(At(GetC(payload), 2))

\* ======================================================================
\* Part 5 (SpecPayload): the payload validators of metrics and simple tables
\* ======================================================================
\* A simple-table payload is [dict, columns, rows]: columns and rows are
\* [list, items]; a column is [dict, key, label, unit, dtype] with key =
\* [str, s], s the characters of the key, and "None" for an absent label, unit
\* or dtype; a row is [dict, items], items the (key, value) pairs of the row in
\* the order of the JSON object; a value is a JSON value of Part 1.

\* cells of one row
MaxRowCells == 2

\* _validate_cell_dtype without the two boolean tests
validate_cell_dtype_bool_is_int(value, dtype) ==
    LET isint == value.p \in {"int", "bool"}
        isfloat == value.p \in {"float", "nan"}
    IN  CASE dtype = "string" -> IF value.p # "str" THEN "VAL_TABLE_DTYPE_MISMATCH" ELSE OK
          [] dtype = "int" -> IF ~isint THEN "VAL_TABLE_DTYPE_MISMATCH" ELSE OK
          [] dtype = "float" ->
                IF ~(isint \/ isfloat) THEN "VAL_TABLE_DTYPE_MISMATCH"
                ELSE IF value.p = "nan" THEN "VAL_TABLE_DTYPE_FLOAT_NONFINITE"
                ELSE OK
          [] dtype = "bool" -> IF value.p # "bool" THEN "VAL_TABLE_DTYPE_MISMATCH" ELSE OK
          [] OTHER -> OK
\* _validate_cell_dtype: OK or the code of the ValidationError.  value is a
\* primitive; isinstance(value, int) holds of a bool as well.
validate_cell_dtype(value, dtype) ==
    LET isbool == value.p = "bool"
        isint == value.p \in {"int", "bool"}
        isfloat == value.p \in {"float", "nan"}
    IN  CASE dtype = "string" -> IF value.p # "str" THEN "VAL_TABLE_DTYPE_MISMATCH" ELSE OK
          [] dtype = "int" ->
                IF isbool THEN "VAL_TABLE_DTYPE_BOOL_AS_INT"
                ELSE IF ~isint THEN "VAL_TABLE_DTYPE_MISMATCH"
                ELSE OK
          [] dtype = "float" ->
                IF isbool THEN "VAL_TABLE_DTYPE_BOOL_AS_FLOAT"
                ELSE IF ~(isint \/ isfloat) THEN "VAL_TABLE_DTYPE_MISMATCH"
                ELSE IF value.p = "nan" THEN "VAL_TABLE_DTYPE_FLOAT_NONFINITE"
                ELSE OK
          [] dtype = "bool" -> IF ~isbool THEN "VAL_TABLE_DTYPE_MISMATCH" ELSE OK
          [] OTHER -> OK

\* validate_table_simple_v1: OK or the code of the ValidationError.  limits is
\* <<>> for None, else <<the ResolutionLimits>>.
validate_table_simple_v1(pl, limits, strictkeys) ==
    LET \* _KEY_PATTERN.match(key): ^[a-zA-Z_][a-zA-Z0-9_]*$
        KEY_PATTERN_match(key) ==
            LET letters == {"a", "b", "x", "_"}
                digits == {"1"}
            IN  /\ Len(key) > 0
                /\ key[1] \in letters
                /\ \A k \in 1..Len(key) : key[k] \in letters \cup digits
    IN
    LET columns == pl.columns.items
        rows == pl.rows.items
        column_key_set == {columns[i].key.s : i \in 1..Len(columns)}
        \* column_dtypes.get(key)
        column_dtype(key) ==
            LET hits == {i \in 1..Len(columns) : columns[i].key.s = key}
            IN  IF hits = {} THEN "None" ELSE columns[CHOOSE i \in hits : TRUE].dtype
        check_column(i) ==
            LET col == columns[i]
            IN  IF ~col.dict THEN "VAL_TABLE_COLUMN_TYPE"
                ELSE IF ~col.key.str THEN "VAL_TABLE_COLUMN_KEY_TYPE"
                ELSE IF col.key.s = <<>> THEN "VAL_TABLE_COLUMN_KEY_EMPTY"
                ELSE IF ~KEY_PATTERN_match(col.key.s) THEN "VAL_TABLE_COLUMN_KEY_INVALID"
                ELSE IF \E k \in 1..(i - 1) : columns[k].key.s = col.key.s
                     THEN "VAL_TABLE_COLUMN_KEY_DUPLICATE"
                ELSE IF col.label \notin {"None", "str"} THEN "VAL_TABLE_COLUMN_LABEL_TYPE"
                ELSE IF col.unit \notin {"None", "str"} THEN "VAL_TABLE_COLUMN_UNIT_TYPE"
                ELSE IF col.dtype \notin {"None", "string", "int", "float", "bool"}
                     THEN "VAL_TABLE_COLUMN_DTYPE_INVALID"
                ELSE OK
        RECURSIVE check_columns(_)
        check_columns(i) ==
            IF i > Len(columns) THEN OK
            ELSE IF check_column(i) # OK THEN check_column(i)
            ELSE check_columns(i + 1)
        check_cell(cell) ==
            IF cell.value.j = "null" THEN OK
            ELSE IF cell.value.j # "prim" THEN "VAL_TABLE_CELL_TYPE"
            ELSE IF column_dtype(cell.key) # "None"
                 THEN validate_cell_dtype(cell.value, column_dtype(cell.key))
            ELSE OK
        RECURSIVE check_cells(_, _)
        check_cells(cells, k) ==
            IF k > Len(cells) THEN OK
            ELSE IF check_cell(cells[k]) # OK THEN check_cell(cells[k])
            ELSE check_cells(cells, k + 1)
        check_row(row) ==
            LET row_keys == {row.items[k].key : k \in 1..Len(row.items)}
            IN  IF ~row.dict THEN "VAL_TABLE_ROW_TYPE"
                ELSE IF row_keys \ column_key_set # {} THEN "VAL_TABLE_ROW_EXTRA_KEYS"
                ELSE IF strictkeys /\ column_key_set \ row_keys # {}
                     THEN "VAL_TABLE_ROW_MISSING_KEYS"
                ELSE check_cells(row.items, 1)
        RECURSIVE check_rows(_)
        check_rows(i) ==
            IF i > Len(rows) THEN OK
            ELSE IF check_row(rows[i]) # OK THEN check_row(rows[i])
            ELSE check_rows(i + 1)
    IN  IF ~pl.dict THEN "VAL_TABLE_NOT_OBJECT"
        ELSE IF ~pl.columns.list THEN "VAL_TABLE_COLUMNS_TYPE"
        ELSE IF Len(columns) = 0 THEN "VAL_TABLE_COLUMNS_EMPTY"
        ELSE IF check_columns(1) # OK THEN check_columns(1)
        ELSE IF ~pl.rows.list THEN "VAL_TABLE_ROWS_TYPE"
        ELSE IF limits # <<>> /\ Len(columns) > limits[1].max_table_cols
             THEN "VAL_TABLE_EXCEEDS_MAX_COLS"
        ELSE IF limits # <<>> /\ Len(rows) > limits[1].max_table_rows
             THEN "VAL_TABLE_EXCEEDS_MAX_ROWS"
        ELSE IF limits # <<>> /\ Len(columns) * Len(rows) > limits[1].max_table_cells
             THEN "VAL_TABLE_EXCEEDS_MAX_CELLS"
        ELSE check_rows(1)

\* _resolve_item, branch table.simple.json@v1, once the loader has returned
\* the payload: strict_keys is not passed, so it has its default True
resolve_item_table_simple(pl, cfg) == validate_table_simple_v1(pl, <<cfg.limits>>, TRUE)

\* the configurations a caller of the pipeline chooses from: ResolutionConfig
\* has the fields target, strict, allow_raw_pandoc and limits
ResolutionConfigs ==
    LET TightLimits == [max_table_cells |-> 2, max_table_rows |-> 1, max_table_cols |-> 2]
    IN  { [target |-> "internal", strict |-> FALSE, allow_raw_pandoc |-> FALSE,
           limits |-> DefaultLimits],
          [target |-> "internal", strict |-> TRUE, allow_raw_pandoc |-> TRUE,
           limits |-> DefaultLimits],
          [target |-> "external", strict |-> TRUE, allow_raw_pandoc |-> FALSE,
           limits |-> DefaultLimits],
          [target |-> "dossier", strict |-> TRUE, allow_raw_pandoc |-> FALSE,
           limits |-> TightLimits] }

InitPayload ==
    LET \* the payloads validated: [spec, body]
        PayloadInputs ==
            LET JBool(b) == [JInt(IF b THEN 1 ELSE 0) EXCEPT !.p = "bool"]
                JFloat == [JInt(1) EXCEPT !.p = "float"]
                JNaN == [JInt(0) EXCEPT !.p = "nan"]
                Values == {JNull, JInt(1), JBool(TRUE), JBool(FALSE), JFloat, JStr}
                Column(key, dtype) ==
                    [dict |-> TRUE, key |-> [str |-> TRUE, s |-> key], label |-> "None",
                     unit |-> "None", dtype |-> dtype]
                ColumnLists ==
                    { <<Column(<<"a">>, da), Column(<<"b">>, db)>> :
                          da \in {"None", "string", "int", "float", "bool"},
                          db \in {"None", "int", "float"} }
                Cells == { [key |-> k, value |-> v] : k \in {<<"a">>, <<"b">>}, v \in Values }
                             \cup { [key |-> <<"x">>, value |-> JNull] }
                Row(cells) == [dict |-> TRUE, items |-> cells]
                Rows == UNION { { Row(s) : s \in { q \in [1..n -> Cells] :
                                                    \A i, k \in 1..n : i # k => q[i].key # q[k].key } } :
                                n \in 0..MaxRowCells }
                NullRow == Row(<<[key |-> <<"a">>, value |-> JNull], [key |-> <<"b">>, value |-> JNull]>>)
                Table(cols, rows) ==
                    [dict |-> TRUE, columns |-> [list |-> TRUE, items |-> cols],
                     rows |-> [list |-> TRUE, items |-> rows]]
                Good == Table(<<Column(<<"a">>, "float"), Column(<<"b">>, "None")>>, <<NullRow>>)
                A(v) == Row(<<[key |-> <<"a">>, value |-> v], [key |-> <<"b">>, value |-> JNull]>>)
                Tables ==
                    { Table(cols, rs) : cols \in ColumnLists,
                                        rs \in {<<>>} \cup { <<r>> : r \in Rows }
                                                      \cup { <<NullRow, r>> : r \in Rows } }
                \* one payload for each of the other checks
                Defects ==
                    { [Good EXCEPT !.dict = FALSE],
                      [Good EXCEPT !.columns.list = FALSE],
                      [Good EXCEPT !.columns.items = <<>>],
                      [Good EXCEPT !.columns.items[2].dict = FALSE],
                      [Good EXCEPT !.columns.items[2].key.str = FALSE, !.columns.items[2].key.s = <<>>],
                      [Good EXCEPT !.columns.items[2].key.s = <<>>],
                      [Good EXCEPT !.columns.items[2].key.s = <<"1", "a">>],
                      [Good EXCEPT !.columns.items[2].key.s = <<"a">>],
                      [Good EXCEPT !.columns.items[2].key.s = <<"_", "1">>,
                                   !.rows.items[1].items[2].key = <<"_", "1">>],
                      [Good EXCEPT !.columns.items[1].label = "int"],
                      [Good EXCEPT !.columns.items[1].label = "str", !.columns.items[1].unit = "int"],
                      [Good EXCEPT !.columns.items[1].dtype = "decimal"],
                      [Good EXCEPT !.rows.list = FALSE],
                      [Good EXCEPT !.rows.items[1].dict = FALSE],
                      [Good EXCEPT !.rows.items = <<A(JList(<<>>))>>],
                      [Good EXCEPT !.rows.items = <<A(JNaN)>>] }
                Metrics ==
                    { [json |-> TRUE, name |-> "M", t |-> "", label |-> l, value |-> v, node |-> JNull] :
                          l \in {"str", "missing", "empty"},
                          v \in Values \cup {JNaN, JList(<<>>)} }
            IN  { [spec |-> "table.simple.json@v1", body |-> b] : b \in Tables \cup Defects }
                  \cup { [spec |-> "metric.json@v1", body |-> b] : b \in Metrics }
    IN
    /\ spayload \in PayloadInputs
    /\ scaller = "none" /\ strict_keys = TRUE
    /\ sconfig = [target |-> "internal", strict |-> TRUE, allow_raw_pandoc |-> FALSE,
                  limits |-> DefaultLimits]
    /\ spc = "start" /\ sresult = ""
    /\ WalkIdle /\ ResolveIdle /\ FilterIdle /\ DocumentIdle /\ UnitIdle("payload")

\* validate_metric_v1(payload, semantic_id)
ValidateMetric ==
    /\ spc = "start" /\ spayload.spec = "metric.json@v1"
    /\ sresult' = validate_metric_v1(spayload.body)
    /\ scaller' = "direct" /\ spc' = "validated"
    /\ UNCHANGED <<spayload, strict_keys, sconfig>>
    /\ UNCHANGED <<walkVars, resolveVars, filterVars, docVars, contextVars, figureVars, normVars>>

\* validate_table_simple_v1(payload, semantic_id, strict_keys=...)
ValidateTableSimple ==
    /\ spc = "start" /\ spayload.spec = "table.simple.json@v1"
    /\ \E sk \in BOOLEAN :
          /\ strict_keys' = sk
          /\ sresult' = validate_table_simple_v1(spayload.body, <<>>, sk)
    /\ scaller' = "direct" /\ spc' = "validated"
    /\ UNCHANGED <<spayload, sconfig>>
    /\ UNCHANGED <<walkVars, resolveVars, filterVars, docVars, contextVars, figureVars, normVars>>

\* _resolve_item on an entry of spec table.simple.json@v1 whose payload has
\* been loaded, under the configuration the caller of resolve() passed
ResolveItemTableSimple ==
    /\ spc = "start" /\ spayload.spec = "table.simple.json@v1"
    /\ \E cfg \in ResolutionConfigs :
          /\ sconfig' = cfg
          /\ sresult' = resolve_item_table_simple(spayload.body, cfg)
    /\ scaller' = "pipeline" /\ strict_keys' = TRUE /\ spc' = "validated"
    /\ UNCHANGED spayload
    /\ UNCHANGED <<walkVars, resolveVars, filterVars, docVars, contextVars, figureVars, normVars>>


SpecPayload == InitPayload /\ [][ValidateMetric \/ ValidateTableSimple \/ ResolveItemTableSimple]_vars

\* ---- properties of SpecPayload ----
\* the validator call of the state, applied to another payload
PayloadOutcome(p) ==
    IF p.spec = "metric.json@v1" THEN validate_metric_v1(p.body)
    ELSE validate_table_simple_v1(p.body,
             IF scaller = "pipeline" THEN <<sconfig.limits>> ELSE <<>>, strict_keys)
IsBool(v) == v.j = "prim" /\ v.p = "bool"
\* a well-formed table: the cell checks read it
WellFormed(b) ==
    /\ b.dict /\ b.columns.list /\ b.rows.list
    /\ \A i \in 1..Len(b.columns.items) : b.columns.items[i].dict
    /\ \A i \in 1..Len(b.rows.items) : b.rows.items[i].dict
\* the declared dtype of the column a cell belongs to ("None" when undeclared)
DeclaredDtype(b, key) ==
    LET hits == {i \in 1..Len(b.columns.items) : b.columns.items[i].key.s = key}
    IN  IF Cardinality(hits) # 1 THEN "None"
        ELSE b.columns.items[CHOOSE i \in hits : TRUE].dtype
\* the (row, cell) positions holding a boolean in a column declared int or float
BoolCells(b) ==
    IF ~WellFormed(b) THEN {}
    ELSE { rc \in UNION { {<<i, k>> : k \in 1..Len(b.rows.items[i].items)} :
                           i \in 1..Len(b.rows.items) } :
              /\ IsBool(b.rows.items[rc[1]].items[rc[2]].value)
              /\ DeclaredDtype(b, b.rows.items[rc[1]].items[rc[2]].key) \in {"int", "float"} }
BoolAsNumber(p) ==
    IF p.spec = "metric.json@v1" THEN IsBool(p.body.value) ELSE BoolCells(p.body) # {}
\* the payload with the number 1 in place of each such boolean
WithNumbers(p) ==
    IF p.spec = "metric.json@v1" THEN [p EXCEPT !.body.value = JInt(1)]
    ELSE [p EXCEPT !.body.rows.items =
              [i \in 1..Len(@) |->
                  [@[i] EXCEPT !.items =
                      [k \in 1..Len(@) |->
                          IF <<i, k>> \in BoolCells(p.body)
                          THEN [@[k] EXCEPT !.value = JInt(1)] ELSE @[k]]]]]
BoolCodes == {"VAL_METRIC_VALUE_BOOL", "VAL_TABLE_DTYPE_BOOL_AS_INT",
              "VAL_TABLE_DTYPE_BOOL_AS_FLOAT"}

\* C23: a payload with a boolean as the metric value, or in a cell of a column
\* declared int or float, is rejected by every call; and when the booleans are
\* all that is wrong with it (the same payload with numbers in their place is
\* accepted by the same call), the code raised is one of the boolean codes, not
\* the generic VAL_METRIC_VALUE_TYPE / VAL_TABLE_DTYPE_MISMATCH.
C23_BooleansNeverNumbers ==
    (spc = "validated" /\ BoolAsNumber(spayload)) =>
        /\ sresult # OK
        /\ PayloadOutcome(WithNumbers(spayload)) = OK => sresult \in BoolCodes
C23_Witness ==
    /\ spc = "validated" /\ spayload.spec = "table.simple.json@v1"
    /\ scaller = "pipeline"
    /\ \E rc \in BoolCells(spayload.body) :
          /\ spayload.body.rows.items[rc[1]].items[rc[2]].value.v = 0
          /\ rc[1] = 2
    /\ PayloadOutcome(WithNumbers(spayload)) = OK
    /\ sresult = "VAL_TABLE_DTYPE_BOOL_AS_FLOAT"

\* a table whose rows are complete but for keys they leave out: the permissive
\* policy accepts it and the strict policy rejects it for a missing key
LacksOnlyKeys(b, limits) ==
    /\ validate_table_simple_v1(b, limits, FALSE) = OK
    /\ validate_table_simple_v1(b, limits, TRUE) = "VAL_TABLE_ROW_MISSING_KEYS"

\* C24: the caller of the resolution pipeline can select either policy: for a
\* table that lacks only keys, some configuration makes the pipeline's
\* validation accept it (the permissive policy), as some makes it reject it.
C24_BothPoliciesSelectable ==
    (spc = "validated" /\ scaller = "pipeline"
       /\ LacksOnlyKeys(spayload.body, <<sconfig.limits>>)) =>
        /\ \E cfg \in ResolutionConfigs : resolve_item_table_simple(spayload.body, cfg) # OK
        /\ \E cfg \in ResolutionConfigs : resolve_item_table_simple(spayload.body, cfg) = OK

\* ---- properties of apply_plan (SpecResolve) ----
\* the plan items recorded for the top-level block at position w (from 1)
ItemsAt(w) == {k \in 1..Len(plan) : plan[k].wrapper_index = w - 1}
SameAttrs(new, old) ==
    new.t = old.t /\ new.id = old.id /\ new.cls = old.cls /\ new.kv = old.kv

\* C25: the tree apply_plan returns has the top-level blocks of the input in
\* the same number and order; a block no plan item points at is unchanged; the
\* wrapper of a plan item keeps its identifier, classes, attributes and number
\* of children, its child at the item's placeholder index is the node emitted
\* for the item and its other children are unchanged.
C25_OnlyPlaceholdersChange ==
    rpc = "returned" =>
        /\ Len(ret.c) = Len(input0.c)
        /\ SameAttrs(ret, input0)
        /\ \A w \in 1..Len(input0.c) :
              IF ItemsAt(w) = {} THEN Val(ret.c[w]) = Val(input0.c[w])
              ELSE /\ SameAttrs(ret.c[w], input0.c[w])
                   /\ Len(ret.c[w].c) = Len(input0.c[w].c)
                   /\ \A k \in ItemsAt(w) : \A i \in 1..Len(input0.c[w].c) :
                         IF i = plan[k].placeholder_index + 1
                         THEN Val(ret.c[w].c[i]) = Val(resolve_item(plan[k], disk, config).block)
                         ELSE Val(ret.c[w].c[i]) = Val(input0.c[w].c[i])
C25_Witness ==
    /\ rpc = "returned" /\ Len(plan) = 1 /\ Len(input0.c) = 2
    /\ plan[1].wrapper_index = 1 /\ plan[1].placeholder_index = 1
    /\ ret.c[2].c[2].t = "Table" /\ ItemsAt(1) = {}

\* the orders the items of the plan can be taken in
Orders == {f \in [1..Len(plan) -> 1..Len(plan)] : \A i, k \in 1..Len(plan) : i # k => f[i] # f[k]}
\* the items resolved first (each from the files and the configuration alone),
\* then the items f[i], ..., f[n] spliced into result in that order
RECURSIVE SpliceInOrder(_, _, _, _)
SpliceInOrder(result, f, i, n) ==
    IF i > n THEN result
    ELSE SpliceInOrder(SpliceItem(result, plan[f[i]], resolve_item(plan[f[i]], disk, config).block),
                       f, i + 1, n)
\* in tree `one` the wrapper and the placeholder of item are where the item
\* recorded them
StillInPlace(one, item) ==
    /\ item.wrapper_index + 1 <= Len(one.c)
    /\ one.c[item.wrapper_index + 1].id = item.entry.id
    /\ item.placeholder_index + 1 <= Len(one.c[item.wrapper_index + 1].c)
    /\ Val(one.c[item.wrapper_index + 1].c[item.placeholder_index + 1])
          = Val(input0.c[item.wrapper_index + 1].c[item.placeholder_index + 1])
\* apply_plan on the plan reordered returns the tree of the run (none when an
\* item fails)
ReorderedPlanSameTree ==
    \A f \in Orders :
        Val(ApplyFrom(deepcopy(input0), [i \in 1..Len(plan) |-> plan[f[i]]], 1,
                      disk, config).tree) = Val(ret)
\* after the first n splices of any order the items left find their wrapper
\* and placeholder where the plan recorded them, and after the last splice the
\* tree is the tree of the run
SplicedInAnyOrder ==
    \A f \in Orders : \A n \in 0..Len(plan) :
        \A one \in {SpliceInOrder(deepcopy(input0), f, 1, n)} :
            /\ \A i \in (n + 1)..Len(plan) : StillInPlace(one, plan[f[i]])
            /\ n = Len(plan) => Val(one) = Val(ret)

\* C26: taking the items of the plan in any order ends as the run in document
\* order ends: apply_plan on the reordered plan returns the same tree (or no
\* tree when an item fails), resolving all items first and splicing them in
\* any order gives that tree too, and after the splice of one item every other
\* item still finds its wrapper and its placeholder at the recorded indexes.
C26_ItemsIndependent ==
    (rpc \in {"raised", "returned"} /\ ri >= 1) =>
        /\ ReorderedPlanSameTree
        /\ rpc = "returned" => SplicedInAnyOrder
C26_Witness ==
    /\ rpc = "returned" /\ Len(plan) = 2
    /\ plan[1].entry.id # plan[2].entry.id
    /\ plan[1].entry.spec # plan[2].entry.spec
    /\ Len(input0.c[2].c) = 2

\* ======================================================================
\* Part 6 (SpecContext): filters/context.py, the frozen dataclass BuildContext
\* ======================================================================
\* BuildContext objects alive at once
MaxContexts == 2

\* variant: __post_init__ leaves the object as the generated __init__ set it
post_init_keep(self) == self
\* __post_init__
post_init(self) ==
    IF self.build_target \in {"external", "dossier"} /\ ~self.strict
    THEN [self EXCEPT !.strict = TRUE]
    ELSE self

InitContext ==
    /\ contexts = <<>> /\ bcerr = <<>>
    /\ WalkIdle /\ ResolveIdle /\ FilterIdle /\ DocumentIdle /\ UnitIdle("context")

\* context = BuildContext(...)
Construct ==
    LET \* BuildContext(build_target=..., render_target=..., strict=...): the generated
        \* __init__ sets the fields, then calls __post_init__
        BuildContext(build_target, render_target, strict) ==
            post_init([build_target |-> build_target, render_target |-> render_target,
                       strict |-> strict, project_root |-> ".", artifact_base_url |-> "None"])
    IN
    /\ Len(contexts) < MaxContexts
    /\ \E bt \in {"internal", "external", "dossier"}, rt \in {"pdf", "html", "md", "rst"},
          s \in BOOLEAN :
          contexts' = Append(contexts, [obj |-> BuildContext(bt, rt, s), requested |-> s])
    /\ bcerr' = <<>>
    /\ UNCHANGED <<walkVars, resolveVars, filterVars, docVars, payloadVars, figureVars, normVars>>

\* context.<field> = value: __setattr__ of a frozen dataclass raises
\* FrozenInstanceError and sets nothing
SetAttr ==
    /\ \E i \in 1..Len(contexts) :
          \E field \in {"build_target", "render_target", "strict"} :
              bcerr' = <<"FrozenInstanceError", "cannot assign to field", field>>
    /\ UNCHANGED contexts
    /\ UNCHANGED <<walkVars, resolveVars, filterVars, docVars, payloadVars, figureVars, normVars>>

\* del context.<field>: __delattr__ of a frozen dataclass raises as well
DelAttr ==
    /\ \E i \in 1..Len(contexts) :
          \E field \in {"build_target", "render_target", "strict"} :
              bcerr' = <<"FrozenInstanceError", "cannot delete field", field>>
    /\ UNCHANGED contexts
    /\ UNCHANGED <<walkVars, resolveVars, filterVars, docVars, payloadVars, figureVars, normVars>>


SpecContext == InitContext /\ [][Construct \/ SetAttr \/ DelAttr]_vars

\* C27: every context constructed for external or dossier has strict = true
\* whatever was requested, a context for internal has the requested value, and
\* no step changes a field of a context that exists.
C27_StrictForcedAndFrozen ==
    /\ [](\A i \in 1..Len(contexts) :
             IF contexts[i].obj.build_target \in {"external", "dossier"}
             THEN contexts[i].obj.strict
             ELSE contexts[i].obj.strict = contexts[i].requested)
    /\ [][\A i \in 1..Len(contexts) : i <= Len(contexts') /\ contexts'[i] = contexts[i]]_vars
C27_Witness ==
    /\ Len(contexts) = 2 /\ bcerr = <<"FrozenInstanceError", "cannot assign to field", "strict">>
    /\ contexts[1].obj.build_target = "dossier" /\ ~contexts[1].requested
    /\ contexts[1].obj.strict
    /\ contexts[2].obj.build_target = "internal" /\ ~contexts[2].obj.strict

\* ======================================================================
\* SpecAppendix: filter_presentation for PDF on trees with "additional"
\* wrappers at top level, nested, in a plain Div and in a BlockQuote
\* ======================================================================
MaxAppendixBlocks == 2
InitAppendix ==
    LET Additional(id, blocks) ==
            DivNode(id, <<>>, << <<"presentation", "additional">> >>, blocks)
        OtherPara == ParaNode(<<StrNode(<<"y">>)>>)
        AppendixInputBlocks ==
            { Additional("a", <<TextPara, OtherPara>>),
              Additional("b", <<TextPara>>),
              DivNode("c", <<>>, <<>>, <<TextPara, OtherPara>>),
              Additional("p", <<OtherPara, Additional("q", <<TextPara, TextPara>>)>>),
              DivNode("", <<>>, <<>>, <<Additional("d", <<TextPara, OtherPara>>)>>),
              DivNode("w", <<>>, <<>>,
                      <<Additional("e", <<TextPara, CodeBlockNode(<<"x = 1", "y = 2">>)>>)>>),
              Node("BlockQuote", "", <<>>, <<>>, <<Additional("f", <<TextPara, OtherPara>>)>>, <<>>),
              make_header(1, <<"Appendix">>, "appendix-section"),
              TextPara }
    IN
    /\ ftree \in DocsOf(AppendixInputBlocks, MaxAppendixBlocks)
    /\ ftree0 = ftree /\ cur = ftree
    /\ freport = <<>> /\ stage_in = ftree /\ stage_report = <<>>
    /\ fmode = "presentation" /\ fpc = "presentation"
    /\ fconfig = FilterConfig
    /\ fctx \in [build_target : {"internal", "external", "dossier"}, render_target : {"pdf"}]
    /\ target2 = fctx.build_target
    /\ WalkIdle /\ ResolveIdle /\ DocumentIdle /\ UnitIdle("")
SpecAppendix == InitAppendix /\ [][FilterPresentation]_vars

\* ---- properties of SpecAppendix ----
\* the tree the appendix transform is given: the input after the code-block
\* transform
AppendixInput == transform_pdf_code_blocks(stage_in, fconfig.thresholds)
\* the over-threshold additional wrappers of a tree, wherever they sit
OverThreshold(n) == {w \in AllWrappers(n) : ToMove(w, fconfig.thresholds)}
StubFor(id) ==
    make_stub_para(<<"[Moved to ", fconfig.appendix.title, "]">>, <<id>>,
                   <<"#", make_anchor_id(id, fconfig.appendix.anchor_prefix)>>)
\* a block list with a stub in place of each over-threshold additional wrapper
RECURSIVE Stubbed(_)
Stubbed(blocks) ==
    [i \in 1..Len(blocks) |->
        IF is_semantic_wrapper(blocks[i]) /\ ToMove(blocks[i], fconfig.thresholds)
        THEN StubFor(blocks[i].id)
        ELSE IF blocks[i].t \in {"Div", "BlockQuote"}
        THEN Val([blocks[i] EXCEPT !.c = Stubbed(@)])
        ELSE Val(blocks[i])]
RECURSIVE CountNodes(_, _)
CountNodes(n, v) ==
    LET RECURSIVE sum(_)
        sum(i) == IF i > Len(n.c) THEN 0 ELSE CountNodes(n.c[i], v) + sum(i + 1)
    IN  (IF Val(n) = v THEN 1 ELSE 0) + sum(1)
AppendixHeaders(n) ==
    {i \in 1..Len(n.c) :
        n.c[i].t = "Header" /\ Val(n.c[i]).c = <<Val(StrNode(<<"Appendix">>))>>}
\* the positions of the subsection headers of wrapper id
SectionsOf(n, id) ==
    {h \in 1..Len(n.c) :
        /\ n.c[h].t = "Header" /\ n.c[h].v = 2
        /\ n.c[h].id = make_anchor_id(id, fconfig.appendix.anchor_prefix)}
RECURSIVE SumOver(_, _)
SumOver(S, f) ==
    IF S = {} THEN 0 ELSE LET x == CHOOSE y \in S : TRUE IN f[x] + SumOver(S \ {x}, f)

\* C28: for PDF, on a tree with unique wrapper ids, every over-threshold
\* additional wrapper is relocated: no wrapper of its id is left, the block
\* lists of the input are in place with one stub (linking to the wrapper's
\* appendix anchor) for each such wrapper, the wrapper's inner blocks follow its
\* one subsection header after the Appendix header, nothing else is added, and
\* an Appendix header is added exactly when a wrapper is relocated and the tree
\* had none.
C28_RelocatedOnceNothingLost ==
    (fmode = "presentation" /\ fpc = "done" /\ fctx.render_target = "pdf"
       /\ UniqueIds(stage_in)) =>
        \A in \in {AppendixInput} :
            LET moved == OverThreshold(in)
                created == IF moved # {} /\ AppendixHeaders(in) = {} THEN 1 ELSE 0
            IN  /\ \A w \in moved :
                      /\ \A d \in AllWrappers(cur) : d.id # w.id
                      /\ CountNodes(cur, StubFor(w.id)) = 1
                      /\ Cardinality(SectionsOf(cur, w.id)) = 1
                      /\ \A h \in SectionsOf(cur, w.id) :
                            /\ \E a \in AppendixHeaders(cur) : a < h
                            /\ h + Len(w.c) <= Len(cur.c)
                            /\ [i \in 1..Len(w.c) |-> Val(cur.c[h + i])] = Stubbed(w.c)
                /\ Len(cur.c) >= Len(in.c)
                /\ [i \in 1..Len(in.c) |-> Val(cur.c[i])] = Stubbed(in.c)
                /\ Cardinality(AppendixHeaders(cur)) = Cardinality(AppendixHeaders(in)) + created
                /\ Len(cur.c) = Len(in.c) + created
                                  + SumOver(moved, [w \in moved |-> 1 + Len(w.c)])

\* ================================================================
\* Part 8: one plan item resolved from the files: payload, figure and
\* figure sidecar (resolver/apply.py, resolver/loaders/figure_v1.py)
\* ================================================================
\* json.load of a sidecar file.  A text is the sequence of its words; a value
\* is <<>> (key absent or null), <<"str", text>>, <<"int">>, <<"list", kinds of
\* the items>> or <<"dict">>
SidecarContent(bytes) ==
    LET Meta(caption, alt, notes) ==
            [json |-> TRUE, dict |-> TRUE, caption |-> caption, alt |-> alt,
             notes |-> notes, meta |-> <<>>]
    IN
    CASE bytes = "S_ok" -> Meta(<<"str", <<"the", "caption">> >>, <<"str", <<"alt">> >>,
                                <<"list", <<"str">> >>)
      [] bytes = "S_alt" -> Meta(<<"str", <<"another", "caption">> >>,
                                 <<"str", <<"other">> >>, <<>>)
      [] bytes = "S_bare" -> Meta(<<>>, <<>>, <<>>)
      [] bytes = "S_caption_int" -> Meta(<<"int">>, <<"str", <<"alt">> >>, <<>>)
      [] bytes = "S_alt_int" -> Meta(<<>>, <<"int">>, <<>>)
      [] bytes = "S_notes_int" -> Meta(<<>>, <<>>, <<"list", <<"str", "int">> >>)
      [] bytes = "S_meta_str" -> [Meta(<<>>, <<>>, <<>>) EXCEPT !.meta = <<"str", <<"m">> >>]
      [] bytes = "S_list" -> [Meta(<<>>, <<>>, <<>>) EXCEPT !.dict = FALSE]
      [] OTHER -> [Meta(<<>>, <<>>, <<>>) EXCEPT !.json = FALSE]

\* load_figure_v1: [err, path]
load_figure_v1(entry, files, verify) ==
    LET ALLOWED_FORMATS == {"image.png", "image.jpg", "image.jpeg", "image.webp",
                            "image.svg", "image.pdf"}
        bytes == files[entry.uri]
        h == IF verify THEN verify_hash(bytes, entry.sha256, entry.id) ELSE NoErr
    IN  IF entry.spec # "figure.binary@v1"
            THEN [err |-> Raise("PayloadError", entry.id), path |-> ""]
        ELSE IF entry.format \notin ALLOWED_FORMATS
            THEN [err |-> Raise("PayloadError", entry.id), path |-> ""]
        ELSE IF bytes = "missing"
            THEN [err |-> Raise("PayloadError", entry.id), path |-> ""]
        ELSE IF h.kind # "none" THEN [err |-> h, path |-> ""]
        ELSE [err |-> NoErr, path |-> entry.uri]

\* load_figure_meta_v1: [err, meta], meta <<>> for None or <<parsed JSON>>.
\* meta_uri "" and meta_sha256 <<>> stand for None
load_figure_meta_v1(entry, files, verify) ==
    LET bytes == files[entry.meta_uri]
        h == IF verify /\ entry.meta_sha256 # <<>>
             THEN verify_hash(bytes, entry.meta_sha256, entry.id) ELSE NoErr
    IN  IF entry.meta_uri = "" THEN [err |-> NoErr, meta |-> <<>>]
        ELSE IF entry.meta_spec # "figure.meta.json@v1"
            THEN [err |-> Raise("PayloadError", entry.id), meta |-> <<>>]
        ELSE IF bytes = "missing"
            THEN [err |-> Raise("PayloadError", entry.id), meta |-> <<>>]
        ELSE IF h.kind # "none" THEN [err |-> h, meta |-> <<>>]
        ELSE IF ~SidecarContent(bytes).json
            THEN [err |-> Raise("PayloadError", entry.id), meta |-> <<>>]
        ELSE [err |-> NoErr, meta |-> <<SidecarContent(bytes)>>]

\* validate_figure_meta_v1: OK or the error code
validate_figure_meta_v1(meta) ==
    LET pl == meta[1]
    IN  IF meta = <<>> THEN OK
        ELSE IF ~pl.dict THEN "VAL_FIGURE_NOT_OBJECT"
        ELSE IF pl.caption # <<>> /\ pl.caption[1] # "str" THEN "VAL_FIGURE_CAPTION_TYPE"
        ELSE IF pl.alt # <<>> /\ pl.alt[1] # "str" THEN "VAL_FIGURE_ALT_TYPE"
        ELSE IF pl.notes # <<>> /\ pl.notes[1] # "list" THEN "VAL_FIGURE_NOTES_TYPE"
        ELSE IF pl.notes # <<>> /\ \E i \in 1..Len(pl.notes[2]) : pl.notes[2][i] # "str"
            THEN "VAL_FIGURE_NOTES_ITEM_TYPE"
        ELSE IF pl.meta # <<>> /\ pl.meta[1] # "dict" THEN "VAL_FIGURE_META_TYPE"
        ELSE OK

\* emit_figure: the Figure block; caption and alt text come from the sidecar
emit_figure(image_path, meta, semantic_id) ==
    LET \* make_inlines_from_text: the words with a Space between them
        make_inlines_from_text(words) ==
            [i \in 1..(2 * Len(words) - 1) |->
                IF i % 2 = 1 THEN StrNode(<<words[(i + 1) \div 2]>>) ELSE SpaceNode]
        \* a dict without keys is falsy, and so is a key that is absent or null
        Text(value) == IF value = <<>> THEN <<>> ELSE value[2]
        filled == meta # <<>> /\ (meta[1].caption # <<>> \/ meta[1].alt # <<>>
                                   \/ meta[1].notes # <<>> \/ meta[1].meta # <<>>)
        caption_text == IF filled THEN Text(meta[1].caption) ELSE <<>>
        alt_text == IF filled THEN Text(meta[1].alt) ELSE <<>>
    IN  [t |-> "Figure", id |-> semantic_id, classes |-> <<"figure">>,
         caption |-> IF caption_text # <<>>
                     THEN <<ParaNode(make_inlines_from_text(caption_text))>> ELSE <<>>,
         alt |-> IF alt_text # <<>> THEN make_inlines_from_text(alt_text) ELSE <<>>,
         url |-> image_path]

\* the figure.binary@v1 branch of _resolve_item: [err, block]
resolve_item_figure(entry, files, cfg) ==
    LET image == load_figure_v1(entry, files, cfg.strict)
        loaded == load_figure_meta_v1(entry, files, cfg.strict)
        v == validate_figure_meta_v1(loaded.meta)
    IN  IF image.err.kind # "none" THEN [err |-> image.err, block |-> <<>>]
        ELSE IF loaded.err.kind # "none" THEN [err |-> loaded.err, block |-> <<>>]
        ELSE IF v # OK
            THEN [err |-> [Raise("ValidationError", entry.id) EXCEPT !.code = v],
                  block |-> <<>>]
        ELSE [err |-> NoErr, block |-> <<emit_figure(image.path, loaded.meta, entry.id)>>]

\* a registry entry and the files under the artifact root: the registry was
\* written for the files I_ok, S_ok and M_ok; a file may have been replaced or
\* removed since, and an entry may name a sidecar without recording its digest
InitFigure ==
    LET FigureEntries ==
            [id : {"fig"}, artifact_type : {"figure"}, spec : {"figure.binary@v1"},
             format : {"image.png", "image.bmp"}, uri : {"fig.png"},
             sha256 : {compute_sha256("I_ok")},
             meta_uri : {"", "fig.json"},
             meta_sha256 : {<<>>, compute_sha256("S_ok")},
             meta_spec : {"", "figure.meta.json@v1"}]
        MetricEntries ==
            [id : {"m"}, artifact_type : {"metric"}, spec : {"metric.json@v1"},
             format : {"json"}, uri : {"m.json"}, sha256 : {compute_sha256("M_ok")},
             meta_uri : {""}, meta_sha256 : {<<>>}, meta_spec : {""}]
        Sidecars == {"missing", "S_ok", "S_alt", "S_bare", "S_caption_int", "S_alt_int",
                     "S_notes_int", "S_meta_str", "S_list", "garbage"}
    IN
    /\ fig_entry \in FigureEntries \cup MetricEntries
    /\ fig_files \in
          { [uri \in {"fig.png", "fig.json", "m.json"} |->
                IF uri = "fig.png" THEN image ELSE IF uri = "fig.json" THEN sidecar ELSE metric] :
              image \in {"missing", "I_ok", "I_alt"}, sidecar \in Sidecars,
              metric \in {"missing", "M_ok", "M_alt", "M_bool", "garbage"} }
    /\ fig_config \in Configs
    /\ fig_pc = "call" /\ fig_ret = <<>>
    /\ WalkIdle /\ ResolveIdle /\ FilterIdle /\ DocumentIdle /\ UnitIdle("figure")

\* _resolve_item on an item whose entry is a figure
ResolveFigureItem ==
    /\ fig_pc = "call" /\ fig_entry.spec = "figure.binary@v1"
    /\ fig_ret' = resolve_item_figure(fig_entry, fig_files, fig_config)
    /\ fig_pc' = IF fig_ret'.err.kind = "none" THEN "returned" ELSE "raised"
    /\ UNCHANGED <<fig_entry, fig_files, fig_config>>
    /\ UNCHANGED <<walkVars, resolveVars, filterVars, docVars, payloadVars, contextVars, normVars>>
\* _resolve_item on an item whose entry is a JSON payload
ResolveJsonItem ==
    /\ fig_pc = "call" /\ fig_entry.spec # "figure.binary@v1"
    /\ fig_ret' = LET Boxed(r) == [err |-> r.err, block |-> <<r.block>>]
                   IN  Boxed(resolve_item([entry |-> fig_entry, wrapper_index |-> 0],
                                          fig_files, fig_config))
    /\ fig_pc' = IF fig_ret'.err.kind = "none" THEN "returned" ELSE "raised"
    /\ UNCHANGED <<fig_entry, fig_files, fig_config>>
    /\ UNCHANGED <<walkVars, resolveVars, filterVars, docVars, payloadVars, contextVars, normVars>>
SpecFigure == InitFigure /\ [][ResolveFigureItem \/ ResolveJsonItem]_vars

\* ---- properties of SpecFigure ----
\* the emitted block carries text read from the sidecar file
SidecarInOutput ==
    /\ fig_entry.spec = "figure.binary@v1"
    /\ fig_ret.block[1].caption # <<>> \/ fig_ret.block[1].alt # <<>>
\* the file at uri has the digest the entry records in field
DigestMatches(uri, recorded) ==
    recorded # <<>> /\ compute_sha256(fig_files[uri]) = recorded

\* C29: when a strict call of _resolve_item returns, the payload file has the
\* digest recorded in the entry, and if caption or alt text of the sidecar is
\* in the emitted block, the entry records a digest for the sidecar and the
\* sidecar file has it.
C29_VerifiedBeforeUse ==
    (fig_pc = "returned" /\ fig_config.strict) =>
        /\ DigestMatches(fig_entry.uri, fig_entry.sha256)
        /\ SidecarInOutput => DigestMatches(fig_entry.meta_uri, fig_entry.meta_sha256)

\* ================================================================
\* Part 9: the normalizer (normalizer/core.py, normalizer/registry.py)
\* followed by the planner
\* ================================================================
MaxNormBlocks == 2

\* Registry.resolve: [err, entry]; a registry is [data, strict], an entry a
\* dict (function) from keys to values
Registry_resolve(self, semantic_id) ==
    LET COMPUTED_REQUIRED_FIELDS == {"role", "kind", "source", "schema"}
        HYBRID_REQUIRED_FIELDS == {"role", "kind"}
        entry == self.data[semantic_id]
        Get(key, default) == IF key \in DOMAIN entry THEN entry[key] ELSE default
        missing_computed ==
            (COMPUTED_REQUIRED_FIELDS \ DOMAIN entry)
                \ (IF Get("kind", "") = "figure" THEN {"schema"} ELSE {})
    IN  IF semantic_id \notin DOMAIN self.data
            THEN (IF self.strict
                     THEN [err |-> Raise("UnknownSemanticIdError", semantic_id), entry |-> <<>>]
                     ELSE [err |-> NoErr, entry |-> <<>>])
        ELSE IF self.strict /\ Get("role", "") = "computed" /\ missing_computed # {}
            THEN [err |-> Raise("RegistryIncompleteError", semantic_id), entry |-> <<>>]
        ELSE IF self.strict /\ Get("role", "") = "hybrid"
                /\ HYBRID_REQUIRED_FIELDS \ DOMAIN entry # {}
            THEN [err |-> Raise("RegistryIncompleteError", semantic_id), entry |-> <<>>]
        ELSE [err |-> NoErr, entry |-> entry]

RECURSIVE normalize_div(_, _, _), process_body(_, _, _, _, _)
\* _normalize_div: [err, block, seen], seen the set seen_ids after the call
normalize_div(div, registry_, seen_ids) ==
    LET resolved == Registry_resolve(registry_, div.id)
        metadata == resolved.entry
        Get(key, default) == IF key \in DOMAIN metadata THEN metadata[key] ELSE default
        Pair(key) == IF key \in DOMAIN metadata THEN << <<key, metadata[key]>> >> ELSE <<>>
        \* str(lock_val).lower()
        Lower(value) == CASE value \in {"True", "TRUE"} -> "true"
                          [] value \in {"False", "FALSE"} -> "false"
                          [] OTHER -> value
        role == Get("role", "")
        kind == Get("kind", "")
        attrs == (IF role # "" THEN << <<"role", role>> >> ELSE <<>>)
                 \o (IF kind # "" THEN << <<"kind", kind>> >> ELSE <<>>)
                 \o Pair("source") \o Pair("schema") \o Pair("visibility")
                 \o (IF role = "computed"
                        THEN << <<"lock", Lower(Get("lock", "true"))>> >> ELSE <<>>)
                 \o Pair("bind-to")
        children == process_body(div.c, "", "", registry_, seen_ids)
        new_content == process_body(div.c, role, kind, registry_, seen_ids \cup {div.id})
    IN  IF div.id = ""
            THEN [err |-> children.err, seen |-> children.seen,
                  block |-> [div EXCEPT !.c = children.blocks, !.oid = 0]]
        ELSE IF div.id \in seen_ids
            THEN [err |-> Raise("DuplicateIdError", div.id), seen |-> seen_ids,
                  block |-> NoTree]
        ELSE IF resolved.err.kind # "none"
            THEN [err |-> resolved.err, seen |-> seen_ids \cup {div.id}, block |-> NoTree]
        ELSE [err |-> new_content.err, seen |-> new_content.seen,
              block |-> [div EXCEPT !.kv = attrs, !.c = new_content.blocks, !.oid = 0]]
\* _process_body with _process_computed_body and _process_hybrid_body, and
\* for any other role (and for role "") _normalize_blocks: [err, blocks, seen]
process_body(content, role, kind, registry_, seen_ids) ==
    LET KIND_PLACEHOLDERS == {"table", "figure", "metric"}
        \* str.upper()
        Upper(s) == CASE s = "table" -> "TABLE" [] s = "figure" -> "FIGURE"
                      [] s = "metric" -> "METRIC" [] s = "annotation" -> "ANNOTATION"
                      [] OTHER -> s
        Kept(block) ==
            IF role = "computed" THEN block.t \notin {"Table", "Image", "Figure"}
            ELSE IF role = "hybrid"
                 THEN block.t \in {"Para", "Plain", "Header", "BlockQuote", "BulletList",
                                   "OrderedList"}
            ELSE TRUE
        Prepend(block, rest) ==
            [rest EXCEPT !.blocks = IF rest.err.kind # "none" THEN <<>> ELSE <<block>> \o @]
        RECURSIVE From(_, _), AfterDiv(_, _)
        From(i, seen) ==
            IF i > Len(content) THEN [err |-> NoErr, blocks |-> <<>>, seen |-> seen]
            ELSE IF content[i].t = "Div"
                 THEN AfterDiv(normalize_div(content[i], registry_, seen), i)
            ELSE IF Kept(content[i]) THEN Prepend(content[i], From(i + 1, seen))
            ELSE From(i + 1, seen)
        AfterDiv(d, i) ==
            IF d.err.kind # "none" THEN [err |-> d.err, blocks |-> <<>>, seen |-> d.seen]
            ELSE Prepend(d.block, From(i + 1, d.seen))
        placeholder == IF kind \in KIND_PLACEHOLDERS THEN Token(Upper(kind))
                       ELSE <<"[[COMPUTED:", Upper(kind), "]]">>
        placeholder_block == ParaNode(<<StrNode(placeholder)>>)
        result == From(1, seen_ids)
    IN  IF role = "computed" /\ result.err.kind = "none"
            THEN [result EXCEPT !.blocks = @ \o <<placeholder_block>>]
        ELSE result

\* core.apply: [err, tree]
apply(ast_, registry_) ==
    LET new_blocks == process_body(ast_.c, "", "", registry_, {})
    IN  IF new_blocks.err.kind # "none" THEN [err |-> new_blocks.err, tree |-> NoTree]
        ELSE [err |-> NoErr, tree |-> [ast_ EXCEPT !.c = new_blocks.blocks, !.oid = 0]]

\* the trees an adapter delivers (wrapper candidates carry only their id) and
\* the normalization registries
InitNorm ==
    LET Candidate(id, blocks) == DivNode(id, <<>>, <<>>, blocks)
        AuthoredTable == Node("Table", "", <<>>, <<>>, <<>>, <<"authored">>)
        NormInputBlocks ==
            { Candidate("a", <<TextPara>>),
              Candidate("a", <<TextPara, AuthoredTable>>),
              Candidate("a", <<PH("TABLE"), TextPara>>),
              Candidate("a", <<Candidate("b", <<TextPara>>)>>),
              Candidate("b", <<>>),
              Candidate("", <<Candidate("b", <<PH("METRIC")>>)>>),
              Candidate("u", <<TextPara>>),
              TextPara }
        MetaEntry(role, kind, more) ==
            [k \in {"role", "kind"} \cup more |->
                CASE k = "role" -> role [] k = "kind" -> kind
                  [] k = "source" -> "run/artifact.json" [] k = "schema" -> "v1"
                  [] k = "visibility" -> "internal" [] OTHER -> "True"]
        EntriesA == { MetaEntry("computed", "table", {"source", "schema"}),
                      MetaEntry("computed", "table", {"source", "schema", "visibility", "lock"}),
                      MetaEntry("computed", "annotation", {"source", "schema"}),
                      MetaEntry("computed", "table", {"source"}),
                      [k \in {"role"} |-> "computed"],
                      MetaEntry("hybrid", "annotation", {}) }
        EntriesB == { MetaEntry("computed", "metric", {"source", "schema"}),
                      MetaEntry("computed", "figure", {"source"}),
                      MetaEntry("authored", "text", {}) }
    IN
    /\ norm_ast \in DocsOf(NormInputBlocks, MaxNormBlocks)
    /\ norm_registry \in
          [data : { [id \in {"a", "b"} |-> IF id = "a" THEN ea ELSE eb] :
                      ea \in EntriesA, eb \in EntriesB },
           strict : BOOLEAN]
    /\ norm_pc = "normalize" /\ norm_out = <<>> /\ norm_plan = <<>>
    /\ WalkIdle /\ ResolveIdle /\ FilterIdle /\ DocumentIdle /\ UnitIdle("norm")

\* normalizer.core.apply on the adapter's tree
Normalize ==
    /\ norm_pc = "normalize"
    /\ norm_out' = apply(norm_ast, norm_registry)
    /\ norm_pc' = IF norm_out'.err.kind = "none" THEN "normalized" ELSE "raised"
    /\ UNCHANGED <<norm_ast, norm_registry, norm_plan>>
    /\ UNCHANGED <<walkVars, resolveVars, filterVars, docVars, payloadVars, contextVars, figureVars>>
\* build_plan on the tree that came out of normalization
BuildPlan ==
    /\ norm_pc = "normalized"
    /\ \E reg \in Registries, cfg \in Configs :
          norm_plan' = build_plan(norm_out.tree, reg, cfg)
    /\ norm_pc' = "planned"
    /\ UNCHANGED <<norm_ast, norm_registry, norm_out>>
    /\ UNCHANGED <<walkVars, resolveVars, filterVars, docVars, payloadVars, contextVars, figureVars>>
SpecNorm == InitNorm /\ [][Normalize \/ BuildPlan]_vars

\* ---- properties of SpecNorm ----
\* the computed wrappers of a tree, at any depth below Divs
ComputedWrappers(n) == {w \in AllWrappers(n) : is_computed_wrapper(w)}
\* the wrapper has exactly one placeholder paragraph among its children, and
\* it names the wrapper's kind
OnePlaceholderOfKind(w) ==
    /\ Len(find_placeholders_in_blocks(w.c)) = 1
    /\ \E k \in {"metric", "table", "figure"} :
          /\ AttrGet(w.kv, "kind", "") = k
          /\ Token(find_placeholders_in_blocks(w.c)[1][1]) \in PLACEHOLDERS
          /\ find_placeholders_in_blocks(w.c)[1][1]
                = (CASE k = "metric" -> "METRIC" [] k = "table" -> "TABLE"
                     [] OTHER -> "FIGURE")

\* C30: in the tree apply() returns every computed wrapper has exactly one
\* placeholder paragraph among its children, carrying the token of its kind,
\* and build_plan on that tree does not raise PlaceholderError.
C30_NormalizedWrappersPlannable ==
    /\ norm_pc \in {"normalized", "planned"} =>
          \A w \in ComputedWrappers(norm_out.tree) : OnePlaceholderOfKind(w)
    /\ norm_pc = "planned" => norm_plan.err.kind # "PlaceholderError"
====
